---- MODULE Spec2Model ----
(***************************************************************************)
(* A model of the CertificateNFT registry (contracts/CertificateNFT.sol,   *)
(* kept in src/unnamed/part_004 lines 299-547).                            *)
(*                                                                         *)
(* Every external function of the contract is a pure operator from a      *)
(* storage record and a call record to a result record [ok, err, ret, st]; *)
(* a reverted call returns the storage it was given.  One action per       *)
(* external function applies the operator to the current storage and      *)
(* stores the call, its outcome and the storage before it in `last`; the   *)
(* action Ack is the caller reading that receipt.                          *)
(*                                                                         *)
(* _safeMint hands control to the recipient when the recipient is a        *)
(* contract (onERC721Received).  The recipient may accept, reject, or call *)
(* back into the registry before accepting; the call record carries that   *)
(* behaviour in its `hooks` field, one entry per minted element.           *)
(*                                                                         *)
(* The module also models ScholarshipEscrow (part_004 lines 1-297), which  *)
(* reads the registry's owner index (EscrowSpec), and the frontend's       *)
(* BulkMintUploader component (UploaderSpec).                              *)
(***************************************************************************)
EXTENDS Integers, Sequences, FiniteSets, TLC

VARIABLES
    tokenIdCounter,         \* uint256 _tokenIdCounter
    owners,                 \* ERC721 _owners: tokenId -> address
    tokenURIs,              \* ERC721URIStorage _tokenURIs: tokenId -> string
    certConfigs,            \* mapping(uint256 => CertificateConfig)
    studentCertificates,    \* mapping(address => uint256[])
    usedHashes,             \* mapping(string => bool), as the set of true keys
    usedUniqueIdentifiers,  \* mapping(string => bool), as the set of true keys
    roles,                  \* AccessControl _roles: role -> set of members
    paused,                 \* Pausable _paused
    baseTokenURI,           \* string _baseTokenURI
    log,                    \* the events emitted so far, oldest first
    now,                    \* block.timestamp
    last,                   \* the last call, its outcome and the storage before it
    env,                    \* the profile the callers of this run follow
    escrow,                 \* ScholarshipEscrow's storage and ETH balance
    elast,                  \* the last escrow call, its outcome and the storage before it
    ui                      \* BulkMintUploader's component state

vars == <<tokenIdCounter, owners, tokenURIs, certConfigs, studentCertificates,
          usedHashes, usedUniqueIdentifiers, roles, paused, baseTokenURI, log,
          now, last, env, escrow, elast, ui>>

----------------------------------------------------------------------------
(* Bounds of the model *)

MaxTokens == 2
MaxTime == 1
MaxVerified == 1
MaxScholarships == 2
MaxBalance == 4

(* Program constants *)

MAX_BATCH_SIZE == 50

ZERO == "0x0"
Users == {"A1", "A2", "K"}
Deployer == "A1"
Contracts == {"K"}

DEFAULT_ADMIN_ROLE == "DEFAULT_ADMIN_ROLE"
ADMIN_ROLE == "ADMIN_ROLE"
MINTER_ROLE == "MINTER_ROLE"
VERIFIER_ROLE == "VERIFIER_ROLE"
Roles == {DEFAULT_ADMIN_ROLE, ADMIN_ROLE, MINTER_ROLE, VERIFIER_ROLE}

CertificateType == {"REGULAR", "SEMESTER", "ACHIEVEMENT", "CUSTOM"}

Hashes == {"", "h1", "h2"}
Identifiers == {"", "s1", "s2"}

----------------------------------------------------------------------------
(* Storage as one record, so that a call can be run on any storage, the    *)
(* storage in the middle of another call included.                         *)

Storage ==
    [counter |-> tokenIdCounter, owners |-> owners, uris |-> tokenURIs,
     configs |-> certConfigs, certsOf |-> studentCertificates,
     usedHashes |-> usedHashes, usedIds |-> usedUniqueIdentifiers,
     roles |-> roles, paused |-> paused, baseURI |-> baseTokenURI, log |-> log]

InitStorage ==
    [counter |-> 0, owners |-> <<>>, uris |-> <<>>, configs |-> <<>>,
     certsOf |-> [a \in Users |-> <<>>],
     usedHashes |-> {}, usedIds |-> {},
     roles |-> [r \in Roles |->
                  IF r \in {DEFAULT_ADMIN_ROLE, ADMIN_ROLE, MINTER_ROLE}
                  THEN {Deployer} ELSE {}],
     paused |-> FALSE, baseURI |-> "", log |-> <<>>]

DefaultConfig ==
    [certType |-> "REGULAR", isRevoked |-> FALSE, issuer |-> ZERO, issueDate |-> 0]

Put(f, k, v) == [x \in (DOMAIN f) \cup {k} |-> IF x = k THEN v ELSE f[x]]

ownerOf(st, tokenId) ==
    IF tokenId \in DOMAIN st.owners THEN st.owners[tokenId] ELSE ZERO

configOf(st, tokenId) ==
    IF tokenId \in DOMAIN st.configs THEN st.configs[tokenId] ELSE DefaultConfig

hasRole(st, role, account) == account \in st.roles[role]

(* Events.  One record shape for all of them: the fields an event does not *)
(* have are left at their defaults.                                        *)
Event(name, tokenId, addr, s1, s2, n, b) ==
    [ev |-> name, tokenId |-> tokenId, addr |-> addr, s1 |-> s1, s2 |-> s2,
     n |-> n, b |-> b]

CertificateIssued(tokenId, student, ipfsHash, cType, timestamp) ==
    Event("CertificateIssued", tokenId, student, ipfsHash, cType, timestamp, FALSE)
RegularCertDetails(id, course, grade) ==
    Event("RegularCertDetails", id, ZERO, course, grade, 0, FALSE)
SemesterCertDetails(id, serialNo, memoNo, sgpa) ==
    Event("SemesterCertDetails", id, ZERO, serialNo, memoNo, sgpa, FALSE)
AchievementCertDetails(id, title, category) ==
    Event("AchievementCertDetails", id, ZERO, title, category, 0, FALSE)
CustomCertDetails(id, templateId) ==
    Event("CustomCertDetails", id, ZERO, templateId, "", 0, FALSE)
CertRevoked(tokenId, admin) ==
    Event("CertRevoked", tokenId, admin, "", "", 0, FALSE)
CertVerified(tokenId, verifier, isValid) ==
    Event("CertVerified", tokenId, verifier, "", "", 0, isValid)

emit(st, e) == [st EXCEPT !.log = Append(@, e)]

(* Results of a call *)
Ok(st, ret) == [ok |-> TRUE, err |-> "", ret |-> ret, st |-> st]
Revert(st, err) == [ok |-> FALSE, err |-> err, ret |-> 0, st |-> st]

----------------------------------------------------------------------------
(* Calls.  One record shape for every external function: a call fills the  *)
(* fields its function takes.  hooks[i] is what the recipient of the i-th  *)
(* minted element does in onERC721Received when it is a contract.          *)

NoCall ==
    [op |-> "none", sender |-> ZERO, student |-> ZERO, ipfsHash |-> "",
     courseName |-> "", grade |-> "", serialNo |-> "", memoNo |-> "", sgpa |-> 0,
     title |-> "", category |-> "", templateId |-> "",
     fieldNames |-> <<>>, fieldValues |-> <<>>,
     students |-> <<>>, courseNames |-> <<>>, grades |-> <<>>, ipfsHashes |-> <<>>,
     tokenId |-> 0, role |-> "", account |-> ZERO, from |-> ZERO, to |-> ZERO,
     baseURI |-> "", hooks |-> <<>>]

Accept == [kind |-> "accept", call |-> NoCall]
Reject == [kind |-> "reject", call |-> NoCall]
Reenter(c) == [kind |-> "call", call |-> c]

hookAt(c, i) == IF i \in DOMAIN c.hooks THEN c.hooks[i] ELSE Accept

(* ERC721._safeMint(to, tokenId): _mint records the owner, then a recipient *)
(* that is a contract is called (onERC721Received) and may revert, or call *)
(* the registry as itself, before it answers.  nested(st, c, ts) is the    *)
(* registry running that call; a call that reverts is caught by the        *)
(* recipient and leaves the storage as it was.                             *)
RECURSIVE nested(_, _, _)

(* ERC721._mint: the ledger records the owner *)
minted(st, to, tokenId) == [st EXCEPT !.owners = Put(@, tokenId, to)]

safeMint(st, to, tokenId, hook, ts) ==
    IF to \notin Contracts \/ hook.kind = "accept" THEN Ok(minted(st, to, tokenId), 0)
    ELSE IF hook.kind = "reject" THEN Revert(st, "ERC721InvalidReceiver")
    ELSE Ok(nested(minted(st, to, tokenId), [hook.call EXCEPT !.sender = to], ts).st, 0)

(* Faulty variant of recordMint: the token is listed under the issuer *)
recordMintIndexesIssuer(st, m, tokenId, sender, to, ipfsHash, cType, ts) ==
    IF ~m.ok THEN Revert(st, m.err)
    ELSE Ok(emit([m.st EXCEPT
                    !.uris = Put(@, tokenId, ipfsHash),
                    !.configs = Put(@, tokenId,
                                    [certType |-> cType, isRevoked |-> FALSE,
                                     issuer |-> sender, issueDate |-> ts]),
                    !.certsOf[sender] = Append(@, tokenId),
                    !.usedHashes = @ \cup {ipfsHash}],
                 CertificateIssued(tokenId, to, ipfsHash, cType, ts)),
            tokenId)

(* Faulty variant of recordMint: the owner is recorded as the issuer *)
recordMintIssuerIsOwner(st, m, tokenId, sender, to, ipfsHash, cType, ts) ==
    IF ~m.ok THEN Revert(st, m.err)
    ELSE Ok(emit([m.st EXCEPT
                    !.uris = Put(@, tokenId, ipfsHash),
                    !.configs = Put(@, tokenId,
                                    [certType |-> cType, isRevoked |-> FALSE,
                                     issuer |-> to, issueDate |-> ts]),
                    !.certsOf[to] = Append(@, tokenId),
                    !.usedHashes = @ \cup {ipfsHash}],
                 CertificateIssued(tokenId, to, ipfsHash, cType, ts)),
            tokenId)

(* Faulty variant of recordMint: the hash is not marked as used *)
recordMintForgetsHash(st, m, tokenId, sender, to, ipfsHash, cType, ts) ==
    IF ~m.ok THEN Revert(st, m.err)
    ELSE Ok(emit([m.st EXCEPT
                    !.uris = Put(@, tokenId, ipfsHash),
                    !.configs = Put(@, tokenId,
                                    [certType |-> cType, isRevoked |-> FALSE,
                                     issuer |-> sender, issueDate |-> ts]),
                    !.certsOf[to] = Append(@, tokenId)],
                 CertificateIssued(tokenId, to, ipfsHash, cType, ts)),
            tokenId)

(* CertificateNFT._mintBase after _safeMint has returned m: the writes and *)
(* the event of lines 396-412                                              *)
recordMint(st, m, tokenId, sender, to, ipfsHash, cType, ts) ==
    IF ~m.ok THEN Revert(st, m.err)
    ELSE Ok(emit([m.st EXCEPT
                    !.uris = Put(@, tokenId, ipfsHash),
                    !.configs = Put(@, tokenId,
                                    [certType |-> cType, isRevoked |-> FALSE,
                                     issuer |-> sender, issueDate |-> ts]),
                    !.certsOf[to] = Append(@, tokenId),
                    !.usedHashes = @ \cup {ipfsHash}],
                 CertificateIssued(tokenId, to, ipfsHash, cType, ts)),
            tokenId)

(* Faulty variant of allocate: an id is skipped *)
allocateTwo(st) == [st EXCEPT !.counter = @ + 2]

(* _tokenIdCounter++ *)
allocate(st) == [st EXCEPT !.counter = @ + 1]

(* Faulty variant of mintBase: the used-hash check comes first *)
mintBaseHashFirst(st, sender, to, ipfsHash, cType, hook, ts) ==
    IF ipfsHash \in st.usedHashes THEN Revert(st, "AlreadyExists")
    ELSE IF to = ZERO THEN Revert(st, "InvalidInput")
    ELSE IF ipfsHash = "" THEN Revert(st, "InvalidInput")
    ELSE recordMint(st,
                    safeMint(allocate(st), to, allocate(st).counter, hook, ts),
                    allocate(st).counter, sender, to, ipfsHash, cType, ts)

(* CertificateNFT._mintBase *)
mintBase(st, sender, to, ipfsHash, cType, hook, ts) ==
    IF to = ZERO THEN Revert(st, "InvalidInput")
    ELSE IF ipfsHash = "" THEN Revert(st, "InvalidInput")
    ELSE IF ipfsHash \in st.usedHashes THEN Revert(st, "AlreadyExists")
    ELSE recordMint(st,
                    safeMint(allocate(st), to, allocate(st).counter, hook, ts),
                    allocate(st).counter, sender, to, ipfsHash, cType, ts)

(* Faulty variant of onlyRole: the super-admin passes for every role *)
onlyRoleOrSuperAdmin(st, role, sender) ==
    IF hasRole(st, role, sender) \/ hasRole(st, DEFAULT_ADMIN_ROLE, sender)
    THEN "" ELSE "AccessControlUnauthorizedAccount"

(* The modifiers onlyRole(role) and whenNotPaused, in the order written *)
onlyRole(st, role, sender) ==
    IF hasRole(st, role, sender) THEN "" ELSE "AccessControlUnauthorizedAccount"

whenNotPaused(st) == IF st.paused THEN "EnforcedPause" ELSE ""

(* Faulty variant of minterModifiers: the role is not asked for *)
minterModifiersNoRole(st, c) == whenNotPaused(st)

minterModifiers(st, c) ==
    IF onlyRole(st, MINTER_ROLE, c.sender) # "" THEN onlyRole(st, MINTER_ROLE, c.sender)
    ELSE whenNotPaused(st)

(* Faulty variant of batchSizeCheck: fifty is already too many *)
batchSizeCheckFrom50(len) == len >= MAX_BATCH_SIZE

batchSizeCheck(len) == len > MAX_BATCH_SIZE

batchLengthCheck(c) ==
    LET len == Len(c.students) IN
    Len(c.courseNames) # len \/ Len(c.grades) # len \/ Len(c.ipfsHashes) # len

(* What a mint function does with the outcome r of _mintBase: it emits    *)
(* its detail event for the new token and returns the token id.            *)
(* Faulty variant of regularDetails: course and grade change places *)
regularDetailsSwapped(r, courseName, grade) ==
    IF ~r.ok THEN r
    ELSE Ok(emit(r.st, RegularCertDetails(r.ret, grade, courseName)), r.ret)

regularDetails(r, courseName, grade) ==
    IF ~r.ok THEN r
    ELSE Ok(emit(r.st, RegularCertDetails(r.ret, courseName, grade)), r.ret)

(* Faulty variant of semesterDetails: a failed mint keeps the identifiers *)
semesterDetailsKeepsIds(r, c) ==
    IF ~r.ok THEN Revert([r.st EXCEPT !.usedIds = @ \cup {c.serialNo, c.memoNo}], r.err)
    ELSE Ok(emit([r.st EXCEPT !.usedIds = @ \cup {c.serialNo, c.memoNo}],
                 SemesterCertDetails(r.ret, c.serialNo, c.memoNo, c.sgpa)),
            r.ret)

semesterDetails(r, c) ==
    IF ~r.ok THEN r
    ELSE Ok(emit([r.st EXCEPT !.usedIds = @ \cup {c.serialNo, c.memoNo}],
                 SemesterCertDetails(r.ret, c.serialNo, c.memoNo, c.sgpa)),
            r.ret)

achievementDetails(r, c) ==
    IF ~r.ok THEN r
    ELSE Ok(emit(r.st, AchievementCertDetails(r.ret, c.title, c.category)), r.ret)

customDetails(r, c) ==
    IF ~r.ok THEN r
    ELSE Ok(emit(r.st, CustomCertDetails(r.ret, c.templateId)), r.ret)

(* Faulty variant of batchElement: a failing element keeps the elements *)
(* minted before it                                                    *)
batchElementKeepsEarlier(st0, r) == IF ~r.ok THEN Revert(r.st, r.err) ELSE Ok(r.st, 0)

(* One pass of the loop of mintCertificatesBatch: p is the outcome of the  *)
(* elements before i, st0 the storage the call started from.               *)
batchElement(st0, r) == IF ~r.ok THEN Revert(st0, r.err) ELSE Ok(r.st, 0)

(* Faulty variant of batchStep: the elements are taken last to first *)
batchStepReversed(st0, p, c, i, ts) ==
    IF ~p.ok THEN p
    ELSE batchElement(st0,
           regularDetails(mintBase(p.st, c.sender, c.students[Len(c.students) + 1 - i],
                                   c.ipfsHashes[Len(c.students) + 1 - i],
                                   "REGULAR", hookAt(c, Len(c.students) + 1 - i), ts),
                          c.courseNames[Len(c.students) + 1 - i],
                          c.grades[Len(c.students) + 1 - i]))

batchStep(st0, p, c, i, ts) ==
    IF ~p.ok THEN p
    ELSE batchElement(st0,
           regularDetails(mintBase(p.st, c.sender, c.students[i], c.ipfsHashes[i],
                                   "REGULAR", hookAt(c, i), ts),
                          c.courseNames[i], c.grades[i]))

(* The loop of mintCertificatesBatch: from(p, i) runs elements i, i+1, ... *)
(* after outcome p; a failing element reverts the whole call.              *)
batchLoop(st, c, ts) ==
    LET RECURSIVE from(_, _)
        from(p, i) ==
          IF i > Len(c.students) \/ ~p.ok THEN p
          ELSE from(batchStep(st, p, c, i, ts), i + 1)
    IN from(Ok(st, 0), 1)

mintCertificatesBatch(st, c, ts) ==
    IF minterModifiers(st, c) # "" THEN Revert(st, minterModifiers(st, c))
    ELSE IF batchSizeCheck(Len(c.students)) THEN Revert(st, "BatchLimit")
    ELSE IF batchLengthCheck(c) THEN Revert(st, "LengthMismatch")
    ELSE batchLoop(st, c, ts)

mintCertificate(st, c, ts) ==
    IF minterModifiers(st, c) # "" THEN Revert(st, minterModifiers(st, c))
    ELSE regularDetails(mintBase(st, c.sender, c.student, c.ipfsHash, "REGULAR",
                                 hookAt(c, 1), ts),
                        c.courseName, c.grade)

semesterIdCheck(st, c) ==
    c.serialNo \in st.usedIds \/ c.memoNo \in st.usedIds

mintSemesterCertificate(st, c, ts) ==
    IF minterModifiers(st, c) # "" THEN Revert(st, minterModifiers(st, c))
    ELSE IF semesterIdCheck(st, c) THEN Revert(st, "AlreadyExists")
    ELSE semesterDetails(mintBase(st, c.sender, c.student, c.ipfsHash, "SEMESTER",
                                  hookAt(c, 1), ts), c)

mintAchievementCertificate(st, c, ts) ==
    IF minterModifiers(st, c) # "" THEN Revert(st, minterModifiers(st, c))
    ELSE achievementDetails(mintBase(st, c.sender, c.student, c.ipfsHash, "ACHIEVEMENT",
                                     hookAt(c, 1), ts), c)

mintCustomCertificate(st, c, ts) ==
    IF minterModifiers(st, c) # "" THEN Revert(st, minterModifiers(st, c))
    ELSE customDetails(mintBase(st, c.sender, c.student, c.ipfsHash, "CUSTOM",
                                hookAt(c, 1), ts), c)

(* --- Admin & Verification --- *)

(* Faulty variant of revokeCertificate: the revoking admin becomes the issuer *)
revokeCertificateTakesOver(st, c) ==
    IF onlyRole(st, ADMIN_ROLE, c.sender) # "" THEN Revert(st, onlyRole(st, ADMIN_ROLE, c.sender))
    ELSE IF ownerOf(st, c.tokenId) = ZERO THEN Revert(st, "NotFound")
    ELSE IF configOf(st, c.tokenId).isRevoked THEN Revert(st, "Revoked")
    ELSE Ok(emit([st EXCEPT !.configs = Put(@, c.tokenId,
                                            [configOf(st, c.tokenId) EXCEPT
                                                !.isRevoked = TRUE, !.issuer = c.sender])],
                 CertRevoked(c.tokenId, c.sender)),
            0)

revokeCertificate(st, c) ==
    IF onlyRole(st, ADMIN_ROLE, c.sender) # "" THEN Revert(st, onlyRole(st, ADMIN_ROLE, c.sender))
    ELSE IF ownerOf(st, c.tokenId) = ZERO THEN Revert(st, "NotFound")
    ELSE IF configOf(st, c.tokenId).isRevoked THEN Revert(st, "Revoked")
    ELSE Ok(emit([st EXCEPT !.configs = Put(@, c.tokenId,
                                            [configOf(st, c.tokenId) EXCEPT !.isRevoked = TRUE])],
                 CertRevoked(c.tokenId, c.sender)),
            0)

(* ERC721URIStorage.tokenURI of an owned token; _baseURI() is not          *)
(* overridden by the contract and is the empty string.                     *)
tokenURI(st, tokenId) ==
    IF tokenId \in DOMAIN st.uris THEN st.uris[tokenId] ELSE ""

(* Faulty variant of verifyCertificate: revocation is not looked at *)
verifyCertificateIgnoresRevoked(st, tokenId) ==
    IF ownerOf(st, tokenId) = ZERO
    THEN [isValid |-> FALSE, ipfsUri |-> "", cType |-> "REGULAR"]
    ELSE [isValid |-> TRUE, ipfsUri |-> tokenURI(st, tokenId),
          cType |-> configOf(st, tokenId).certType]

verifyCertificate(st, tokenId) ==
    IF ownerOf(st, tokenId) = ZERO
    THEN [isValid |-> FALSE, ipfsUri |-> "", cType |-> "REGULAR"]
    ELSE IF configOf(st, tokenId).isRevoked
    THEN [isValid |-> FALSE, ipfsUri |-> "", cType |-> configOf(st, tokenId).certType]
    ELSE [isValid |-> TRUE, ipfsUri |-> tokenURI(st, tokenId),
          cType |-> configOf(st, tokenId).certType]

(* Faulty variant of verifierResult: the verification is not logged *)
verifierResultNoLog(st, c, v) == Ok(st, [isValid |-> v.isValid, cType |-> v.cType])

verifierResult(st, c, v) ==
    Ok(emit(st, CertVerified(c.tokenId, c.sender, v.isValid)),
       [isValid |-> v.isValid, cType |-> v.cType])

verifyCertificateByVerifier(st, c) ==
    IF onlyRole(st, VERIFIER_ROLE, c.sender) # "" THEN Revert(st, onlyRole(st, VERIFIER_ROLE, c.sender))
    ELSE verifierResult(st, c, verifyCertificate(st, c.tokenId))

getStudentCertificates(st, student) == st.certsOf[student]

setBaseURI(st, c) ==
    IF onlyRole(st, ADMIN_ROLE, c.sender) # "" THEN Revert(st, onlyRole(st, ADMIN_ROLE, c.sender))
    ELSE Ok([st EXCEPT !.baseURI = c.baseURI], 0)

pause(st, c) ==
    IF onlyRole(st, ADMIN_ROLE, c.sender) # "" THEN Revert(st, onlyRole(st, ADMIN_ROLE, c.sender))
    ELSE IF st.paused THEN Revert(st, "EnforcedPause")
    ELSE Ok([st EXCEPT !.paused = TRUE], 0)

unpause(st, c) ==
    IF onlyRole(st, ADMIN_ROLE, c.sender) # "" THEN Revert(st, onlyRole(st, ADMIN_ROLE, c.sender))
    ELSE IF ~st.paused THEN Revert(st, "ExpectedPause")
    ELSE Ok([st EXCEPT !.paused = FALSE], 0)

(* --- Inherited from AccessControl and ERC721 --- *)

grantRole(st, c) ==
    IF onlyRole(st, DEFAULT_ADMIN_ROLE, c.sender) # ""
    THEN Revert(st, onlyRole(st, DEFAULT_ADMIN_ROLE, c.sender))
    ELSE Ok([st EXCEPT !.roles[c.role] = @ \cup {c.account}], 0)

revokeRole(st, c) ==
    IF onlyRole(st, DEFAULT_ADMIN_ROLE, c.sender) # ""
    THEN Revert(st, onlyRole(st, DEFAULT_ADMIN_ROLE, c.sender))
    ELSE Ok([st EXCEPT !.roles[c.role] = @ \ {c.account}], 0)

(* ERC721.transferFrom by the token's owner (approvals are not modelled:   *)
(* they only widen who may make the same transfer).                        *)
transferFrom(st, c) ==
    IF c.to = ZERO THEN Revert(st, "ERC721InvalidReceiver")
    ELSE IF ownerOf(st, c.tokenId) = ZERO THEN Revert(st, "ERC721NonexistentToken")
    ELSE IF ownerOf(st, c.tokenId) # c.sender THEN Revert(st, "ERC721InsufficientApproval")
    ELSE IF ownerOf(st, c.tokenId) # c.from THEN Revert(st, "ERC721IncorrectOwner")
    ELSE Ok([st EXCEPT !.owners = Put(@, c.tokenId, c.to)], 0)

(* The registry's dispatcher: the external function a call names *)
dispatch(st, c, ts) ==
    CASE c.op = "mintCertificate" -> mintCertificate(st, c, ts)
      [] c.op = "mintCertificatesBatch" -> mintCertificatesBatch(st, c, ts)
      [] c.op = "mintSemesterCertificate" -> mintSemesterCertificate(st, c, ts)
      [] c.op = "mintAchievementCertificate" -> mintAchievementCertificate(st, c, ts)
      [] c.op = "mintCustomCertificate" -> mintCustomCertificate(st, c, ts)
      [] c.op = "revokeCertificate" -> revokeCertificate(st, c)
      [] c.op = "verifyCertificate" -> Ok(st, verifyCertificate(st, c.tokenId))
      [] c.op = "getStudentCertificates" -> Ok(st, getStudentCertificates(st, c.student))
      [] c.op = "verifyCertificateByVerifier" -> verifyCertificateByVerifier(st, c)
      [] c.op = "setBaseURI" -> setBaseURI(st, c)
      [] c.op = "pause" -> pause(st, c)
      [] c.op = "unpause" -> unpause(st, c)
      [] c.op = "grantRole" -> grantRole(st, c)
      [] c.op = "revokeRole" -> revokeRole(st, c)
      [] c.op = "transferFrom" -> transferFrom(st, c)
      [] OTHER -> Ok(st, 0)

(* A call made from inside a recipient's hook: a recipient it mints to in  *)
(* turn accepts without calling further.                                   *)
nested(st, c, ts) == dispatch(st, [c EXCEPT !.hooks = <<>>], ts)

(* A call made by a transaction *)
exec(st, c, ts) == dispatch(st, c, ts)

(* The same call when every recipient accepts at once *)
plain(st, c, ts) == dispatch(st, [c EXCEPT !.hooks = <<>>], ts)

----------------------------------------------------------------------------
(* The inputs the actions draw from *)

Call(op, sender) == [NoCall EXCEPT !.op = op, !.sender = sender]

Fill(x, n) == [i \in 1..n |-> x]

(* Batches of four arrays of one length k <= n *)
EqualBatches(S, H, n) ==
    UNION {{[students |-> s, courseNames |-> Fill("c", k), grades |-> Fill("g", k),
             ipfsHashes |-> h] : s \in [1..k -> S], h \in [1..k -> H]} : k \in 0..n}

(* Batches of four arrays of any lengths in L, each filled with one value *)
LengthBatches(L) ==
    {[students |-> Fill("A2", a), courseNames |-> Fill("c", b), grades |-> Fill("g", c),
      ipfsHashes |-> Fill("h1", d)] : a \in L, b \in L, c \in L, d \in L}

(* What a recipient contract may call while it is being minted to *)
NestedCalls ==
    {[Call("mintCertificate", ZERO) EXCEPT !.student = u, !.ipfsHash = h,
                                           !.courseName = "c", !.grade = "g"]
        : u \in {"A2", "K"}, h \in Hashes \ {""}}
    \cup {[Call("mintSemesterCertificate", ZERO) EXCEPT !.student = "A2", !.ipfsHash = "h2",
                                                    !.serialNo = ids[1], !.memoNo = ids[2],
                                                    !.sgpa = 9]
        : ids \in {<<"s1", "s2">>, <<"s2", "s1">>}}
    \cup {[Call("revokeCertificate", ZERO) EXCEPT !.tokenId = t] : t \in 1..MaxTokens}
    \cup {[Call("transferFrom", ZERO) EXCEPT !.from = "K", !.to = "A2", !.tokenId = t]
        : t \in 1..MaxTokens}

MintOps == {"mintCertificate", "mintCertificatesBatch", "mintSemesterCertificate",
            "mintAchievementCertificate", "mintCustomCertificate"}

----------------------------------------------------------------------------
(* ScholarshipEscrow (contracts/ScholarshipEscrow.sol, kept in             *)
(* src/unnamed/part_004 lines 1-297).  Its external functions are pure     *)
(* operators from the escrow's storage es (the ETH balance of the contract *)
(* included) and a call record to a result record, like the registry's.    *)
(* A call's msg.value is in the balance while the body runs and goes back  *)
(* with a revert.  The recipient of an ETH payment accepts it, or, when it *)
(* is a contract, may reject it (the call's `receive` field).              *)

SCHOLARSHIP_MANAGER_ROLE == "SCHOLARSHIP_MANAGER_ROLE"
EscrowRoles == {DEFAULT_ADMIN_ROLE, ADMIN_ROLE, SCHOLARSHIP_MANAGER_ROLE}

ETH == ZERO

NoScholarship ==
    [name |-> "", totalAmount |-> 0, claimedAmount |-> 0, remainingAmount |-> 0,
     maxRecipients |-> 0, amountPerRecipient |-> 0, createdAt |-> 0, deadline |-> 0,
     isActive |-> FALSE, createdBy |-> ZERO, tokenAddress |-> ZERO]

NoCriteria == [minCertificates |-> 0]

InitEscrow ==
    [counter |-> 0, scholarships |-> <<>>, criteria |-> <<>>, claims |-> {},
     totalClaimed |-> [a \in Users |-> 0],
     scholarshipsOf |-> [a \in Users |-> <<>>],
     roles |-> [r \in EscrowRoles |-> {Deployer}],
     paused |-> FALSE, balance |-> 0]

scholarshipAt(es, id) ==
    IF id \in DOMAIN es.scholarships THEN es.scholarships[id] ELSE NoScholarship

criteriaAt(es, id) ==
    IF id \in DOMAIN es.criteria THEN es.criteria[id] ELSE NoCriteria

NoEscrowCall ==
    [op |-> "none", sender |-> ZERO, scholarshipId |-> 0, name |-> "",
     totalAmount |-> 0, maxRecipients |-> 0, deadline |-> 0, tokenAddress |-> ZERO,
     minCertificates |-> 0, amount |-> 0, value |-> 0, receive |-> "accept"]

EscrowCall(op, sender) == [NoEscrowCall EXCEPT !.op = op, !.sender = sender]

(* msg.value arrives with the call *)
paid(es, c) == [es EXCEPT !.balance = @ + c.value]

(* Faulty variant of perRecipient: the amount is rounded up *)
perRecipientRoundedUp(totalAmount, maxRecipients) ==
    (totalAmount + maxRecipients - 1) \div maxRecipients

perRecipient(totalAmount, maxRecipients) == totalAmount \div maxRecipients

newScholarship(c, ts) ==
    [name |-> c.name, totalAmount |-> c.totalAmount, claimedAmount |-> 0,
     remainingAmount |-> c.totalAmount, maxRecipients |-> c.maxRecipients,
     amountPerRecipient |-> perRecipient(c.totalAmount, c.maxRecipients),
     createdAt |-> ts, deadline |-> c.deadline, isActive |-> TRUE,
     createdBy |-> c.sender, tokenAddress |-> c.tokenAddress]

createScholarship(es, c, ts) ==
    IF onlyRole(es, SCHOLARSHIP_MANAGER_ROLE, c.sender) # ""
    THEN Revert(es, onlyRole(es, SCHOLARSHIP_MANAGER_ROLE, c.sender))
    ELSE IF whenNotPaused(es) # "" THEN Revert(es, whenNotPaused(es))
    ELSE IF ~(c.totalAmount > 0) THEN Revert(es, "Amount must be greater than 0")
    ELSE IF ~(c.maxRecipients > 0) THEN Revert(es, "Max recipients must be greater than 0")
    ELSE IF ~(c.deadline > ts) THEN Revert(es, "Deadline must be in the future")
    ELSE IF c.name = "" THEN Revert(es, "Name cannot be empty")
    ELSE IF c.tokenAddress = ETH /\ ~(c.value >= c.totalAmount)
    THEN Revert(es, "Insufficient ETH sent")
    ELSE Ok([paid(es, c) EXCEPT
               !.counter = @ + 1,
               !.scholarships = Append(@, newScholarship(c, ts)),
               !.criteria = Append(@, [minCertificates |-> c.minCertificates])],
            es.counter + 1)

isEligibleForScholarship(es, reg, id, student) ==
    ~(Len(getStudentCertificates(reg, student)) < criteriaAt(es, id).minCertificates)

(* Lines 157-166: the claim is marked and the scholarship's amounts moved *)
claimed(es, id, student) ==
    LET s == scholarshipAt(es, id)
        t == [s EXCEPT !.claimedAmount = @ + s.amountPerRecipient,
                       !.remainingAmount = @ - s.amountPerRecipient]
    IN [es EXCEPT
          !.claims = @ \cup {<<id, student>>},
          !.scholarships[id] =
              IF t.remainingAmount = 0 \/ t.claimedAmount >= t.totalAmount
              THEN [t EXCEPT !.isActive = FALSE] ELSE t]

(* Faulty variant of claimChecks: an inactive scholarship can be claimed *)
claimChecksNoActive(es, reg, c, ts) ==
    LET s == scholarshipAt(es, c.scholarshipId)
    IN IF ~(ts <= s.deadline) THEN "Scholarship deadline has passed"
       ELSE IF <<c.scholarshipId, c.sender>> \in es.claims
       THEN "Already claimed this scholarship"
       ELSE IF ~(s.remainingAmount > 0) THEN "No funds remaining"
       ELSE IF ~(s.claimedAmount < s.totalAmount) THEN "Scholarship fully claimed"
       ELSE IF ~isEligibleForScholarship(es, reg, c.scholarshipId, c.sender)
       THEN "Student not eligible for this scholarship"
       ELSE IF ~(s.amountPerRecipient <= s.remainingAmount) THEN "Insufficient funds for claim"
       ELSE ""

(* The requires of claimScholarship before its effects, lines 144-154 *)
claimChecks(es, reg, c, ts) ==
    LET s == scholarshipAt(es, c.scholarshipId)
    IN IF ~s.isActive THEN "Scholarship is not active"
       ELSE IF ~(ts <= s.deadline) THEN "Scholarship deadline has passed"
       ELSE IF <<c.scholarshipId, c.sender>> \in es.claims
       THEN "Already claimed this scholarship"
       ELSE IF ~(s.remainingAmount > 0) THEN "No funds remaining"
       ELSE IF ~(s.claimedAmount < s.totalAmount) THEN "Scholarship fully claimed"
       ELSE IF ~isEligibleForScholarship(es, reg, c.scholarshipId, c.sender)
       THEN "Student not eligible for this scholarship"
       ELSE IF ~(s.amountPerRecipient <= s.remainingAmount) THEN "Insufficient funds for claim"
       ELSE ""

(* Lines 168-177: the payment of the claim *)
payClaim(es0, es, c) ==
    LET s == scholarshipAt(es0, c.scholarshipId)
    IN IF s.tokenAddress = ETH
       THEN IF ~(es.balance >= s.amountPerRecipient)
            THEN Revert(es0, "Insufficient contract balance")
            ELSE IF c.receive = "reject" THEN Revert(es0, "ETH transfer failed")
            ELSE Ok([es EXCEPT !.balance = @ - s.amountPerRecipient], 0)
       ELSE Revert(es0, "ERC20 transfers not yet implemented")

(* Lines 179-180: the student's totals *)
credited(r, c, amount) ==
    IF ~r.ok THEN r
    ELSE Ok([r.st EXCEPT !.totalClaimed[c.sender] = @ + amount,
                         !.scholarshipsOf[c.sender] = Append(@, c.scholarshipId)], 0)

claimScholarship(es, reg, c, ts) ==
    IF whenNotPaused(es) # "" THEN Revert(es, whenNotPaused(es))
    ELSE IF claimChecks(es, reg, c, ts) # "" THEN Revert(es, claimChecks(es, reg, c, ts))
    ELSE credited(payClaim(es, claimed(es, c.scholarshipId, c.sender), c), c,
                  scholarshipAt(es, c.scholarshipId).amountPerRecipient)

revokeScholarship(es, c) ==
    IF onlyRole(es, ADMIN_ROLE, c.sender) # "" THEN Revert(es, onlyRole(es, ADMIN_ROLE, c.sender))
    ELSE IF ~scholarshipAt(es, c.scholarshipId).isActive
    THEN Revert(es, "Scholarship is not active")
    ELSE Ok([es EXCEPT !.scholarships[c.scholarshipId].isActive = FALSE], 0)

depositFunds(es, c) ==
    IF whenNotPaused(es) # "" THEN Revert(es, whenNotPaused(es))
    ELSE IF ~(c.value > 0) THEN Revert(es, "Amount must be greater than 0")
    ELSE Ok(paid(es, c), 0)

withdrawFunds(es, c) ==
    IF onlyRole(es, ADMIN_ROLE, c.sender) # "" THEN Revert(es, onlyRole(es, ADMIN_ROLE, c.sender))
    ELSE IF ~(c.amount <= es.balance) THEN Revert(es, "Insufficient balance")
    ELSE IF ~(c.amount > 0) THEN Revert(es, "Amount must be greater than 0")
    ELSE IF c.receive = "reject" THEN Revert(es, "Transfer failed")
    ELSE Ok([es EXCEPT !.balance = @ - c.amount], 0)

escrowPause(es, c) == pause(es, c)

escrowUnpause(es, c) == unpause(es, c)

(* receive(): plain ETH sent to the escrow *)
receive(es, c) == Ok(paid(es, c), 0)

(* The escrow's dispatcher *)
escrowDispatch(es, reg, c, ts) ==
    CASE c.op = "createScholarship" -> createScholarship(es, c, ts)
      [] c.op = "claimScholarship" -> claimScholarship(es, reg, c, ts)
      [] c.op = "revokeScholarship" -> revokeScholarship(es, c)
      [] c.op = "depositFunds" -> depositFunds(es, c)
      [] c.op = "withdrawFunds" -> withdrawFunds(es, c)
      [] c.op = "pause" -> escrowPause(es, c)
      [] c.op = "unpause" -> escrowUnpause(es, c)
      [] c.op = "receive" -> receive(es, c)

NoEscrowReceipt ==
    [call |-> NoEscrowCall, ok |-> TRUE, err |-> "", ts |-> 0, pre |-> InitEscrow]

----------------------------------------------------------------------------
(* BulkMintUploader (frontend/src/components/BulkMintUploader.tsx).  The   *)
(* component's state is the record ui: the useState cells file, data,      *)
(* errors, isValidating and isMinting, the uploads whose parseCSV promise  *)
(* is not settled yet, and the batch handed to mintCertificatesBatch.      *)
(* A file is its name's extension, its size and its text as lines of       *)
(* cells.                                                                  *)

UPLOAD_MAX_ROWS == 50
UPLOAD_MAX_SIZE == 5242880

RequiredHeaders == <<"studentAddress", "courseName", "grade", "ipfsHash">>

Range(q) == {q[i] : i \in DOMAIN q}

(* ethers.isAddress *)
isValidAddress(address) == address \in {"0xA1", "0xA2"}

GoodLine == <<"0xA2", "c", "g", "h1">>
BadLine == <<"nobody", "c", "g", "h2">>

NoFile == [name |-> "", ext |-> "", size |-> 0, lines |-> <<>>]

CsvFile(name, lines) == [name |-> name, ext |-> "csv", size |-> 100, lines |-> lines]

Files ==
    {CsvFile("one", <<RequiredHeaders, GoodLine>>),
     CsvFile("mixed", <<RequiredHeaders, GoodLine, BadLine>>),
     CsvFile("many", <<RequiredHeaders>> \o Fill(GoodLine, UPLOAD_MAX_ROWS + 1)),
     CsvFile("headless", <<<<"studentAddress", "courseName", "grade">>, GoodLine>>),
     [CsvFile("notes", <<RequiredHeaders, GoodLine>>) EXCEPT !.ext = "txt"],
     [CsvFile("huge", <<RequiredHeaders, GoodLine>>) EXCEPT !.size = UPLOAD_MAX_SIZE + 1]}

(* The value of a line under header h: values[i] || '' *)
cell(headers, values, h) ==
    LET at == {i \in DOMAIN headers : headers[i] = h}
    IN IF at = {} THEN ""
       ELSE LET i == CHOOSE j \in at : \A k \in at : j >= k
            IN IF i \in DOMAIN values THEN values[i] ELSE ""

(* One data line as a row *)
parseLine(headers, values) ==
    [studentAddress |-> cell(headers, values, "studentAddress"),
     courseName |-> cell(headers, values, "courseName"),
     grade |-> cell(headers, values, "grade"),
     ipfsHash |-> cell(headers, values, "ipfsHash"),
     certificateType |-> IF cell(headers, values, "certificateType") = "" THEN "REGULAR"
                         ELSE cell(headers, values, "certificateType")]

(* parseCSV: the promise's outcome, [ok, rows] or [ok, error] *)
parseCSV(f) ==
    LET lines == SelectSeq(f.lines, LAMBDA l : l # <<>>)
    IN IF Len(lines) < 2
       THEN [ok |-> FALSE, rows |-> <<>>,
             error |-> "CSV file must contain header and at least one data row"]
       ELSE IF ~(Range(RequiredHeaders) \subseteq Range(lines[1]))
       THEN [ok |-> FALSE, rows |-> <<>>, error |-> "Missing required headers"]
       ELSE [ok |-> TRUE, error |-> "",
             rows |-> [i \in 1..(Len(lines) - 1) |-> parseLine(lines[1], lines[i + 1])]]

rowErrors(row) ==
    (IF row.studentAddress = "" \/ ~isValidAddress(row.studentAddress)
     THEN {"Invalid Ethereum address"} ELSE {})
    \cup (IF row.courseName = "" THEN {"Course name required"} ELSE {})
    \cup (IF row.grade = "" THEN {"Grade required"} ELSE {})
    \cup (IF row.ipfsHash = "" THEN {"IPFS Hash required"} ELSE {})

validateData(rows) ==
    [i \in DOMAIN rows |->
        [studentAddress |-> rows[i].studentAddress, courseName |-> rows[i].courseName,
         grade |-> rows[i].grade, ipfsHash |-> rows[i].ipfsHash,
         certificateType |-> rows[i].certificateType, errors |-> rowErrors(rows[i])]]

(* data.filter(row => !row.errors || row.errors.length === 0) *)
validRowsOf(data) == SelectSeq(data, LAMBDA row : row.errors = {})

hasErrors(data) == \E i \in DOMAIN data : data[i].errors # {}

NoBatch == [rows |-> <<>>, file |-> NoFile, sent |-> FALSE]

InitUI ==
    [file |-> NoFile, data |-> <<>>, errors |-> "", isValidating |-> FALSE,
     isMinting |-> FALSE, parsing |-> {}, batch |-> NoBatch]

----------------------------------------------------------------------------
(* The callers' profiles.  A run follows one profile: its operations and   *)
(* their arguments are drawn from the profile's sets.  A field a profile   *)
(* does not set is empty.                                                  *)
NoProfile ==
    [ops |-> {}, senders |-> {}, students |-> {}, hashes |-> {}, idPairs |-> {},
     hooks |-> {}, tokenIds |-> {}, grants |-> {}, transfers |-> {}, maxTime |-> 0]

ProfileNames == {"mint", "batch", "reenterMint", "reenterRevoke", "admin", "verify",
                 "roles", "semester", "transfer"}

(* The escrow's callers.  A creation request is the arguments and the      *)
(* msg.value of a createScholarship call.                                  *)
Request(totalAmount, maxRecipients, minCertificates) ==
    [name |-> "n", totalAmount |-> totalAmount, maxRecipients |-> maxRecipients,
     deadline |-> 1, tokenAddress |-> ETH, minCertificates |-> minCertificates,
     value |-> totalAmount]

(* totalAmount and maxRecipients: an amount below the number of            *)
(* recipients, an exact division, a division with a remainder, one         *)
(* recipient                                                               *)
AmountPairs == {<<1, 2>>, <<2, 2>>, <<3, 2>>, <<2, 1>>}

RejectedRequests ==
    {Request(0, 1, 0), Request(1, 0, 0),
     [Request(2, 2, 0) EXCEPT !.name = ""],
     [Request(2, 2, 0) EXCEPT !.deadline = 0],
     [Request(2, 2, 0) EXCEPT !.value = 1]}

NoEscrowProfile ==
    [ops |-> {}, requests |-> {}, creators |-> {}, claimers |-> {}, ids |-> {},
     admins |-> {}, values |-> {}, amounts |-> {}, registry |-> NoProfile]

EscrowProfileNames == {"create", "recipients", "eligible", "funds", "lifecycle"}

EscrowProfileOf(p) ==
    CASE p = "create" ->
           [NoEscrowProfile EXCEPT
              !.ops = {"createScholarship", "claimScholarship"},
              !.requests = {Request(a[1], a[2], 0) : a \in AmountPairs}
                             \cup RejectedRequests
                             \cup {[Request(2, 2, 0) EXCEPT !.value = 3],
                                   [Request(2, 2, 0) EXCEPT !.tokenAddress = "T", !.value = 0]},
              !.creators = {"A1", "A2"}, !.claimers = {"A2"}, !.ids = {1}]
      [] p = "recipients" ->
           [NoEscrowProfile EXCEPT
              !.ops = {"createScholarship", "claimScholarship"},
              !.requests = {Request(a[1], a[2], 0) : a \in AmountPairs},
              !.creators = {"A1"}, !.claimers = Users, !.ids = 0..MaxScholarships]
      [] p = "eligible" ->
           [NoEscrowProfile EXCEPT
              !.ops = {"createScholarship", "claimScholarship"},
              !.requests = {Request(2, 2, 0), Request(2, 2, 1)},
              !.creators = {"A1"}, !.claimers = {"A1", "A2"}, !.ids = 1..MaxScholarships,
              !.registry = [NoProfile EXCEPT
                              !.ops = {"mintCertificate"}, !.senders = {"A1"},
                              !.students = {"A2"}, !.hashes = {"h1"},
                              !.maxTime = MaxTime + 1]]
      [] p = "funds" ->
           [NoEscrowProfile EXCEPT
              !.ops = {"createScholarship", "claimScholarship", "depositFunds",
                       "withdrawFunds", "receive"},
              !.requests = {Request(2, 2, 0), Request(3, 2, 0)},
              !.creators = {"A1"}, !.claimers = {"A2", "K"}, !.ids = 1..MaxScholarships,
              !.admins = {"A1", "A2"}, !.values = {0, 1}, !.amounts = {0, 1, 2}]
      [] p = "lifecycle" ->
           [NoEscrowProfile EXCEPT
              !.ops = {"createScholarship", "claimScholarship", "revokeScholarship",
                       "pause", "unpause"},
              !.requests = {Request(2, 2, 0),
                            [Request(2, 2, 0) EXCEPT !.tokenAddress = "T", !.value = 0]},
              !.creators = {"A1"}, !.claimers = {"A2", "K"}, !.ids = 1..MaxScholarships,
              !.admins = {"A1", "A2"}]

ProfileOf(p) ==
    CASE p = "mint" ->
           [NoProfile EXCEPT
              !.ops = MintOps \cup {"pause", "unpause"}, !.senders = {"A1", "A2"},
              !.students = {ZERO, "A2", "K"}, !.hashes = Hashes,
              !.idPairs = {<<"s1", "s2">>}, !.hooks = {Reject}]
      [] p = "batch" ->
           [NoProfile EXCEPT
              !.ops = {"mintCertificatesBatch", "mintCertificate", "pause", "unpause"},
              !.senders = {"A1", "A2"}, !.students = {"A2"}, !.hashes = {"h1"}]
      [] p = "reenterMint" ->
           [NoProfile EXCEPT
              !.ops = {"mintCertificate", "mintSemesterCertificate",
                       "mintCertificatesBatch", "grantRole"},
              !.senders = {"A1"}, !.students = {"K"}, !.hashes = {"h1", "h2"},
              !.idPairs = {<<"s1", "s2">>},
              !.hooks = {Reenter(n) : n \in {c \in NestedCalls : c.op \in MintOps}},
              !.grants = {<<MINTER_ROLE, "K">>}]
      [] p = "reenterRevoke" ->
           [NoProfile EXCEPT
              !.ops = {"mintCertificate", "revokeCertificate", "verifyCertificate",
                       "grantRole"},
              !.senders = {"A1"}, !.students = {"K"}, !.hashes = {"h1", "h2"},
              !.hooks = {Reenter(n) : n \in {c \in NestedCalls : c.op \notin MintOps}},
              !.tokenIds = 1..MaxTokens,
              !.grants = {<<ADMIN_ROLE, "K">>},
              !.maxTime = MaxTime]
      [] p = "admin" ->
           [NoProfile EXCEPT
              !.ops = {"mintCertificate", "revokeCertificate", "pause", "unpause",
                       "verifyCertificate"},
              !.senders = {"A1", "A2"}, !.students = {"A2"}, !.hashes = {"h1", "h2"},
              !.tokenIds = 0..(MaxTokens + 1)]
      [] p = "verify" ->
           [NoProfile EXCEPT
              !.ops = {"mintCertificate", "revokeCertificate", "verifyCertificate",
                       "verifyCertificateByVerifier", "grantRole"},
              !.senders = {"A1", "A2"}, !.students = {"A2"}, !.hashes = {"h1"},
              !.tokenIds = {0, 1, 2},
              !.grants = {<<VERIFIER_ROLE, "A2">>}]
      [] p = "roles" ->
           [NoProfile EXCEPT
              !.ops = {"mintCertificate", "revokeCertificate", "pause", "unpause",
                       "setBaseURI", "verifyCertificateByVerifier",
                       "grantRole", "revokeRole"},
              !.senders = Users, !.students = {"A2"}, !.hashes = {"h1"},
              !.tokenIds = {1},
              !.grants = {<<MINTER_ROLE, "A2">>, <<ADMIN_ROLE, "K">>,
                          <<VERIFIER_ROLE, "A2">>, <<MINTER_ROLE, "A1">>}]
      [] p = "semester" ->
           [NoProfile EXCEPT
              !.ops = {"mintSemesterCertificate", "mintCertificate"},
              !.senders = {"A1"}, !.students = {ZERO, "A2"}, !.hashes = Hashes,
              !.idPairs = Identifiers \X Identifiers,
              !.maxTime = MaxTime]
      [] p = "transfer" ->
           [NoProfile EXCEPT
              !.ops = {"mintCertificate", "transferFrom", "revokeCertificate",
                       "verifyCertificate", "getStudentCertificates"},
              !.senders = Users, !.students = {"A2", "K"}, !.hashes = {"h1", "h2"},
              !.tokenIds = 1..MaxTokens,
              !.transfers = {<<"A2", "K">>, <<"K", "A2">>, <<"A2", "A1">>}]
      [] p \in EscrowProfileNames -> EscrowProfileOf(p).registry

BatchesOf(p) ==
    CASE p = "mint" -> EqualBatches({ZERO, "A2"}, Hashes, 2)
      [] p = "batch" -> LengthBatches({0, 1, 2, MAX_BATCH_SIZE, MAX_BATCH_SIZE + 1})
      [] p = "reenterMint" -> EqualBatches({"K", "A2"}, {"h1", "h2"}, 2)
      [] OTHER -> {}

E == ProfileOf(env)

(* The hook is drawn only for a call that reaches _safeMint with a         *)
(* contract as recipient; any other call never runs it.                    *)
HooksFor(c) ==
    IF c.student \in Contracts /\ plain(Storage, [c EXCEPT !.hooks = <<>>], now).ok
    THEN {<<h>> : h \in E.hooks} \cup {<<>>}
    ELSE {<<>>}

BatchHooksFor(c) ==
    IF plain(Storage, [c EXCEPT !.hooks = <<>>], now).ok
    THEN {hs \in [1..Len(c.students) -> E.hooks \cup {Accept}] :
            \A i \in 1..Len(c.students) : c.students[i] \notin Contracts => hs[i] = Accept}
    ELSE {<<>>}

NoReceipt == [call |-> NoCall, ok |-> TRUE, err |-> "", ret |-> 0, ts |-> 0,
              pre |-> InitStorage]

Idle == last.call.op = "none"

NumVerified(l) == Cardinality({i \in DOMAIN l : l[i].ev = "CertVerified"})

(* Outcome r of call c becomes the storage and the receipt *)
Commit(c, r) ==
    /\ r.st.counter <= MaxTokens
    /\ NumVerified(r.st.log) <= MaxVerified
    /\ tokenIdCounter' = r.st.counter
    /\ owners' = r.st.owners
    /\ tokenURIs' = r.st.uris
    /\ certConfigs' = r.st.configs
    /\ studentCertificates' = r.st.certsOf
    /\ usedHashes' = r.st.usedHashes
    /\ usedUniqueIdentifiers' = r.st.usedIds
    /\ roles' = r.st.roles
    /\ paused' = r.st.paused
    /\ baseTokenURI' = r.st.baseURI
    /\ log' = r.st.log
    /\ now' = now
    /\ env' = env
    /\ UNCHANGED <<escrow, elast, ui>>
    /\ last' = [call |-> c, ok |-> r.ok, err |-> r.err, ret |-> r.ret, ts |-> now,
                pre |-> Storage]

(* Run call c as one transaction at the current block time *)
Transact(c) == Commit(c, exec(Storage, c, now))

Init ==
    /\ tokenIdCounter = InitStorage.counter
    /\ owners = InitStorage.owners
    /\ tokenURIs = InitStorage.uris
    /\ certConfigs = InitStorage.configs
    /\ studentCertificates = InitStorage.certsOf
    /\ usedHashes = InitStorage.usedHashes
    /\ usedUniqueIdentifiers = InitStorage.usedIds
    /\ roles = InitStorage.roles
    /\ paused = InitStorage.paused
    /\ baseTokenURI = InitStorage.baseURI
    /\ log = InitStorage.log
    /\ now = 0
    /\ last = NoReceipt
    /\ escrow = InitEscrow
    /\ elast = NoEscrowReceipt
    /\ ui = InitUI
    /\ env \in ProfileNames

MintCertificate ==
    /\ Idle
    /\ "mintCertificate" \in E.ops
    /\ \E sender \in E.senders, student \in E.students, h \in E.hashes :
         LET c == [Call("mintCertificate", sender) EXCEPT
                     !.student = student, !.ipfsHash = h, !.courseName = "c", !.grade = "g"]
         IN \E hooks \in HooksFor(c) : Transact([c EXCEPT !.hooks = hooks])

MintCertificatesBatch ==
    /\ Idle
    /\ "mintCertificatesBatch" \in E.ops
    /\ \E sender \in E.senders, b \in BatchesOf(env) :
         LET c == [Call("mintCertificatesBatch", sender) EXCEPT
                     !.students = b.students, !.courseNames = b.courseNames,
                     !.grades = b.grades, !.ipfsHashes = b.ipfsHashes]
         IN \E hooks \in BatchHooksFor(c) : Transact([c EXCEPT !.hooks = hooks])

MintSemesterCertificate ==
    /\ Idle
    /\ "mintSemesterCertificate" \in E.ops
    /\ \E sender \in E.senders, student \in E.students, h \in E.hashes, id \in E.idPairs :
         LET c == [Call("mintSemesterCertificate", sender) EXCEPT
                     !.student = student, !.ipfsHash = h,
                     !.serialNo = id[1], !.memoNo = id[2], !.sgpa = 9]
         IN \E hooks \in HooksFor(c) : Transact([c EXCEPT !.hooks = hooks])

MintAchievementCertificate ==
    /\ Idle
    /\ "mintAchievementCertificate" \in E.ops
    /\ \E sender \in E.senders, student \in E.students, h \in E.hashes :
         LET c == [Call("mintAchievementCertificate", sender) EXCEPT
                     !.student = student, !.ipfsHash = h, !.title = "t", !.category = "k"]
         IN \E hooks \in HooksFor(c) : Transact([c EXCEPT !.hooks = hooks])

MintCustomCertificate ==
    /\ Idle
    /\ "mintCustomCertificate" \in E.ops
    /\ \E sender \in E.senders, student \in E.students, h \in E.hashes :
         LET c == [Call("mintCustomCertificate", sender) EXCEPT
                     !.student = student, !.ipfsHash = h, !.templateId = "tpl",
                     !.fieldNames = <<"f">>, !.fieldValues = <<"v">>]
         IN \E hooks \in HooksFor(c) : Transact([c EXCEPT !.hooks = hooks])

RevokeCertificate ==
    /\ Idle
    /\ "revokeCertificate" \in E.ops
    /\ \E sender \in E.senders, t \in E.tokenIds :
         Transact([Call("revokeCertificate", sender) EXCEPT !.tokenId = t])

VerifyCertificate ==
    /\ Idle
    /\ "verifyCertificate" \in E.ops
    /\ \E sender \in E.senders, t \in E.tokenIds :
         Transact([Call("verifyCertificate", sender) EXCEPT !.tokenId = t])

VerifyCertificateByVerifier ==
    /\ Idle
    /\ "verifyCertificateByVerifier" \in E.ops
    /\ \E sender \in E.senders, t \in E.tokenIds :
         Transact([Call("verifyCertificateByVerifier", sender) EXCEPT !.tokenId = t])

GetStudentCertificates ==
    /\ Idle
    /\ "getStudentCertificates" \in E.ops
    /\ \E sender \in E.senders, student \in Users :
         Transact([Call("getStudentCertificates", sender) EXCEPT !.student = student])

SetBaseURI ==
    /\ Idle
    /\ "setBaseURI" \in E.ops
    /\ \E sender \in E.senders, u \in {"", "ipfs://"} :
         Transact([Call("setBaseURI", sender) EXCEPT !.baseURI = u])

Pause ==
    /\ Idle
    /\ "pause" \in E.ops
    /\ \E sender \in E.senders : Transact(Call("pause", sender))

Unpause ==
    /\ Idle
    /\ "unpause" \in E.ops
    /\ \E sender \in E.senders : Transact(Call("unpause", sender))

GrantRole ==
    /\ Idle
    /\ "grantRole" \in E.ops
    /\ \E sender \in E.senders, g \in E.grants :
         Transact([Call("grantRole", sender) EXCEPT !.role = g[1], !.account = g[2]])

RevokeRole ==
    /\ Idle
    /\ "revokeRole" \in E.ops
    /\ \E sender \in E.senders, g \in E.grants :
         Transact([Call("revokeRole", sender) EXCEPT !.role = g[1], !.account = g[2]])

TransferFrom ==
    /\ Idle
    /\ "transferFrom" \in E.ops
    /\ \E sender \in E.senders, tr \in E.transfers, t \in E.tokenIds :
         Transact([Call("transferFrom", sender) EXCEPT
                     !.from = tr[1], !.to = tr[2], !.tokenId = t])

(* The caller reads the receipt of its call *)
Ack ==
    /\ ~Idle
    /\ last' = NoReceipt
    /\ UNCHANGED <<tokenIdCounter, owners, tokenURIs, certConfigs, studentCertificates,
                   usedHashes, usedUniqueIdentifiers, roles, paused, baseTokenURI, log,
                   now, env, escrow, elast, ui>>

(* A later block *)
Tick ==
    /\ Idle
    /\ now < E.maxTime
    /\ now' = now + 1
    /\ UNCHANGED <<tokenIdCounter, owners, tokenURIs, certConfigs, studentCertificates,
                   usedHashes, usedUniqueIdentifiers, roles, paused, baseTokenURI, log,
                   last, env, escrow, elast, ui>>

Next ==
    \/ MintCertificate
    \/ MintCertificatesBatch
    \/ MintSemesterCertificate
    \/ MintAchievementCertificate
    \/ MintCustomCertificate
    \/ RevokeCertificate
    \/ VerifyCertificate
    \/ VerifyCertificateByVerifier
    \/ GetStudentCertificates
    \/ SetBaseURI
    \/ Pause
    \/ Unpause
    \/ GrantRole
    \/ RevokeRole
    \/ TransferFrom
    \/ Ack
    \/ Tick

Spec == Init /\ [][Next]_vars

----------------------------------------------------------------------------
(* The escrow's transactions.  The escrow reads the registry               *)
(* (getStudentCertificates) and never writes it.                           *)

X == EscrowProfileOf(env)

EscrowIdle == elast.call.op = "none"

(* What the sender of call c does with an ETH payment *)
ReceivesFor(sender) == IF sender \in Contracts THEN {"accept", "reject"} ELSE {"accept"}

EscrowCommit(c, r) ==
    /\ r.st.counter <= MaxScholarships
    /\ r.st.balance <= MaxBalance
    /\ escrow' = r.st
    /\ elast' = [call |-> c, ok |-> r.ok, err |-> r.err, ts |-> now, pre |-> escrow]
    /\ UNCHANGED <<tokenIdCounter, owners, tokenURIs, certConfigs, studentCertificates,
                   usedHashes, usedUniqueIdentifiers, roles, paused, baseTokenURI, log,
                   now, last, env, ui>>

EscrowTransact(c) == EscrowCommit(c, escrowDispatch(escrow, Storage, c, now))

EscrowInit ==
    /\ tokenIdCounter = InitStorage.counter
    /\ owners = InitStorage.owners
    /\ tokenURIs = InitStorage.uris
    /\ certConfigs = InitStorage.configs
    /\ studentCertificates = InitStorage.certsOf
    /\ usedHashes = InitStorage.usedHashes
    /\ usedUniqueIdentifiers = InitStorage.usedIds
    /\ roles = InitStorage.roles
    /\ paused = InitStorage.paused
    /\ baseTokenURI = InitStorage.baseURI
    /\ log = InitStorage.log
    /\ now = 0
    /\ last = NoReceipt
    /\ escrow = InitEscrow
    /\ elast = NoEscrowReceipt
    /\ ui = InitUI
    /\ env \in EscrowProfileNames

CreateScholarship ==
    /\ Idle /\ EscrowIdle
    /\ "createScholarship" \in X.ops
    /\ \E sender \in X.creators, q \in X.requests :
         EscrowTransact([EscrowCall("createScholarship", sender) EXCEPT
                           !.name = q.name, !.totalAmount = q.totalAmount,
                           !.maxRecipients = q.maxRecipients, !.deadline = q.deadline,
                           !.tokenAddress = q.tokenAddress,
                           !.minCertificates = q.minCertificates, !.value = q.value])

ClaimScholarship ==
    /\ Idle /\ EscrowIdle
    /\ "claimScholarship" \in X.ops
    /\ \E sender \in X.claimers, id \in X.ids : \E rcv \in ReceivesFor(sender) :
         EscrowTransact([EscrowCall("claimScholarship", sender) EXCEPT
                           !.scholarshipId = id, !.receive = rcv])

RevokeScholarship ==
    /\ Idle /\ EscrowIdle
    /\ "revokeScholarship" \in X.ops
    /\ \E sender \in X.admins, id \in X.ids :
         EscrowTransact([EscrowCall("revokeScholarship", sender) EXCEPT !.scholarshipId = id])

DepositFunds ==
    /\ Idle /\ EscrowIdle
    /\ "depositFunds" \in X.ops
    /\ \E sender \in X.claimers, v \in X.values :
         EscrowTransact([EscrowCall("depositFunds", sender) EXCEPT !.value = v])

WithdrawFunds ==
    /\ Idle /\ EscrowIdle
    /\ "withdrawFunds" \in X.ops
    /\ \E sender \in X.admins, a \in X.amounts \cup {escrow.balance + 1} :
         EscrowTransact([EscrowCall("withdrawFunds", sender) EXCEPT !.amount = a])

Receive ==
    /\ Idle /\ EscrowIdle
    /\ "receive" \in X.ops
    /\ \E sender \in X.claimers :
         EscrowTransact([EscrowCall("receive", sender) EXCEPT !.value = 1])

EscrowPause ==
    /\ Idle /\ EscrowIdle
    /\ "pause" \in X.ops
    /\ \E sender \in X.admins : EscrowTransact(EscrowCall("pause", sender))

EscrowUnpause ==
    /\ Idle /\ EscrowIdle
    /\ "unpause" \in X.ops
    /\ \E sender \in X.admins : EscrowTransact(EscrowCall("unpause", sender))

(* The registry mints a certificate *)
EscrowMint == EscrowIdle /\ MintCertificate

(* The caller reads the receipt of its escrow call *)
EscrowAck ==
    /\ ~EscrowIdle
    /\ elast' = NoEscrowReceipt
    /\ UNCHANGED <<tokenIdCounter, owners, tokenURIs, certConfigs, studentCertificates,
                   usedHashes, usedUniqueIdentifiers, roles, paused, baseTokenURI, log,
                   now, last, env, escrow, ui>>

EscrowTick == EscrowIdle /\ Tick

EscrowNext ==
    \/ CreateScholarship
    \/ ClaimScholarship
    \/ RevokeScholarship
    \/ DepositFunds
    \/ WithdrawFunds
    \/ Receive
    \/ EscrowPause
    \/ EscrowUnpause
    \/ EscrowMint
    \/ Ack
    \/ EscrowAck
    \/ EscrowTick

EscrowSpec == EscrowInit /\ [][EscrowNext]_vars

----------------------------------------------------------------------------
(* The uploader's handlers.  An await splits a handler in two actions: the *)
(* part up to the await, and the continuation when the promise settles.    *)

UIFrame ==
    UNCHANGED <<tokenIdCounter, owners, tokenURIs, certConfigs, studentCertificates,
                usedHashes, usedUniqueIdentifiers, roles, paused, baseTokenURI, log,
                now, last, env, escrow, elast>>

UploaderInit ==
    /\ tokenIdCounter = InitStorage.counter
    /\ owners = InitStorage.owners
    /\ tokenURIs = InitStorage.uris
    /\ certConfigs = InitStorage.configs
    /\ studentCertificates = InitStorage.certsOf
    /\ usedHashes = InitStorage.usedHashes
    /\ usedUniqueIdentifiers = InitStorage.usedIds
    /\ roles = InitStorage.roles
    /\ paused = InitStorage.paused
    /\ baseTokenURI = InitStorage.baseURI
    /\ log = InitStorage.log
    /\ now = 0
    /\ last = NoReceipt
    /\ escrow = InitEscrow
    /\ elast = NoEscrowReceipt
    /\ env = "uploader"
    /\ ui = InitUI

(* handleFileUpload up to `await parseCSV(uploadedFile)` *)
HandleFileUpload ==
    /\ \E f \in Files :
         ui' = IF f.ext # "csv" THEN [ui EXCEPT !.errors = "Please upload a CSV file"]
               ELSE IF f.size > UPLOAD_MAX_SIZE
               THEN [ui EXCEPT !.errors = "File size must be less than 5MB"]
               ELSE [ui EXCEPT !.file = f, !.errors = "", !.isValidating = TRUE,
                               !.parsing = @ \cup {f}]
    /\ UIFrame

(* handleFileUpload after the await: the promise of one upload settles *)
ParseSettles ==
    /\ \E f \in ui.parsing :
         LET p == parseCSV(f)
             rest == [ui EXCEPT !.parsing = @ \ {f}, !.isValidating = FALSE]
         IN ui' = IF ~p.ok THEN [rest EXCEPT !.errors = p.error]
                  ELSE IF Len(p.rows) > UPLOAD_MAX_ROWS
                  THEN [rest EXCEPT !.errors = "Maximum 50 certificates per batch"]
                  ELSE [rest EXCEPT
                          !.data = validateData(p.rows),
                          !.errors = IF hasErrors(validateData(p.rows))
                                     THEN "Row errors" ELSE @]
    /\ UIFrame

(* The X button of the preview *)
ClearPreview ==
    /\ Len(ui.data) > 0
    /\ ui' = [ui EXCEPT !.file = NoFile, !.data = <<>>, !.errors = ""]
    /\ UIFrame

(* handleMint, from the Mint button, up to the await of the transaction *)
HandleMint ==
    /\ Len(ui.data) > 0
    /\ ~(hasErrors(ui.data) \/ Len(validRowsOf(ui.data)) = 0 \/ ui.isMinting)
    /\ \E connected \in BOOLEAN :
         ui' = IF Len(validRowsOf(ui.data)) = 0
               THEN [ui EXCEPT !.errors = "No valid rows to mint"]
               ELSE IF ~connected
               THEN [ui EXCEPT !.errors = "Wallet not connected or contract not available"]
               ELSE [ui EXCEPT !.isMinting = TRUE,
                               !.batch = [rows |-> validRowsOf(ui.data), file |-> ui.file,
                                          sent |-> TRUE]]
    /\ UIFrame

(* handleMint after the await: the transaction is confirmed or fails *)
MintSettles ==
    /\ ui.isMinting
    /\ \E confirmed \in BOOLEAN :
         ui' = IF confirmed
               THEN [ui EXCEPT !.file = NoFile, !.data = <<>>, !.errors = "",
                               !.isMinting = FALSE]
               ELSE [ui EXCEPT !.errors = "Failed to mint certificates",
                               !.isMinting = FALSE]
    /\ UIFrame

UploaderNext ==
    \/ HandleFileUpload
    \/ ParseSettles
    \/ ClearPreview
    \/ HandleMint
    \/ MintSettles

UploaderSpec == UploaderInit /\ [][UploaderNext]_vars

----------------------------------------------------------------------------
(* The claims.  lc is the call of the receipt at hand, pre the storage it  *)
(* ran on, Storage the storage it left.                                    *)

lc == last.call
pre == last.pre

IsMint == lc.op \in MintOps
IsBatch == lc.op = "mintCertificatesBatch"
IsSingleMint == IsMint /\ ~IsBatch

Issued(l) == {i \in DOMAIN l : l[i].ev = "CertificateIssued"}

(* The content hashes of the certificates minted according to log l *)
HashesIssued(l) == {l[i].s1 : i \in Issued(l)}

(* The content hashes call c asks to mint with *)
HashesOf(c) ==
    IF c.op = "mintCertificatesBatch"
    THEN {c.ipfsHashes[i] : i \in DOMAIN c.ipfsHashes}
    ELSE {c.ipfsHash}

NoHooks(c) == \A i \in DOMAIN c.hooks : c.hooks[i].kind = "accept"

(* C1: token ids are allocated gaplessly from 1.  In every state the       *)
(* existing token ids are exactly 1..counter; a successful mint returns    *)
(* the counter it found plus 1 (so 1 on a fresh registry) and that id did  *)
(* not exist before; a mint call raises the counter by exactly the number  *)
(* of certificates it issued and a failed one leaves it alone; the         *)
(* elements of a batch take the next ids in input order; no existing id    *)
(* is lost.                                                                *)
C1_GaplessTokenIds ==
    /\ DOMAIN owners = 1..tokenIdCounter
    /\ 0 \notin DOMAIN owners
    /\ IsMint =>
         /\ ~last.ok => tokenIdCounter = pre.counter
         /\ DOMAIN pre.owners \subseteq DOMAIN owners
         /\ tokenIdCounter - pre.counter
              = Cardinality(Issued(log)) - Cardinality(Issued(pre.log))
         /\ (last.ok /\ IsSingleMint) =>
              /\ last.ret = pre.counter + 1
              /\ last.ret \in DOMAIN owners \ DOMAIN pre.owners
         /\ (last.ok /\ IsBatch /\ NoHooks(lc)) =>
              /\ tokenIdCounter = pre.counter + Len(lc.students)
              /\ \A i \in 1..Len(lc.students) :
                    /\ owners[pre.counter + i] = lc.students[i]
                    /\ tokenURIs[pre.counter + i] = lc.ipfsHashes[i]

(* C1 witness: a mint on a registry holding one token returned id 2 *)
C1_Witness == last.ok /\ IsSingleMint /\ pre.counter = 1 /\ last.ret = 2

(* The call reuses a content hash of an earlier successful mint *)
ReusesHash == IsMint /\ HashesOf(lc) \cap HashesIssued(pre.log) # {}

ByMinter == lc.sender \in pre.roles[MINTER_ROLE]

BatchSizesOk(c) ==
    /\ Len(c.students) <= MAX_BATCH_SIZE
    /\ Len(c.courseNames) = Len(c.students)
    /\ Len(c.grades) = Len(c.students)
    /\ Len(c.ipfsHashes) = Len(c.students)

(* The first element of batch c whose hash is in used *)
FirstUsed(c, used) ==
    CHOOSE i \in DOMAIN c.ipfsHashes :
        /\ c.ipfsHashes[i] \in used
        /\ \A j \in 1..(i - 1) : c.ipfsHashes[j] \notin used

(* An element up to i makes the batch fail before the hash of i is looked at *)
FailsBefore(c, i) ==
    \E j \in 1..i :
        \/ c.students[j] = ZERO
        \/ j < i /\ c.ipfsHashes[j] = ""
        \/ j < i /\ c.students[j] \in Contracts /\ hookAt(c, j).kind = "reject"

(* A check that runs before the used-hash check rejects the call *)
EarlierCheckFails ==
    \/ pre.paused
    \/ IsSingleMint /\ lc.student = ZERO
    \/ IsBatch /\ ~BatchSizesOk(lc)
    \/ IsBatch /\ BatchSizesOk(lc)
         /\ FailsBefore(lc, FirstUsed(lc, HashesIssued(pre.log)))

(* C2, as amended: a mint call by a MINTER that reuses the content hash of *)
(* an earlier successful mint fails and mints nothing, whatever the owner  *)
(* and the certificate type; it fails with AlreadyExists unless an earlier *)
(* check rejects it first (paused registry, zero owner, batch size or      *)
(* length, or an earlier element of the batch).                            *)
C2_UsedHashRejected ==
    (ReusesHash /\ ByMinter) =>
        /\ ~last.ok
        /\ Storage = pre
        /\ ~EarlierCheckFails => last.err = "AlreadyExists"

(* C2 witness: a MINTER reuses a hash for another owner and another type *)
(* and is told AlreadyExists                                            *)
C2_Witness ==
    /\ ReusesHash /\ ByMinter /\ IsSingleMint /\ lc.op # "mintCertificate"
    /\ ~EarlierCheckFails /\ last.err = "AlreadyExists"
    /\ \E t \in DOMAIN pre.uris :
          pre.uris[t] = lc.ipfsHash /\ pre.owners[t] # lc.student

(* C2 as stated: every mint call by a MINTER that reuses a hash fails with *)
(* AlreadyExists                                                           *)
C2_AlwaysAlreadyExists ==
    (ReusesHash /\ ByMinter) =>
        ~last.ok /\ last.err = "AlreadyExists" /\ Storage = pre

Revocations(l, t) == {i \in DOMAIN l : l[i].ev = "CertRevoked" /\ l[i].tokenId = t}

(* C3 as stated: once a revokeCertificate(t) has succeeded (its CertRevoked *)
(* log is in the log), t is revoked and verifyCertificate(t) reports it     *)
(* invalid in every later state.                                            *)
C3_RevocationOneWay ==
    \A t \in 1..tokenIdCounter :
        Revocations(log, t) # {} =>
            /\ certConfigs[t].isRevoked
            /\ ~verifyCertificate(Storage, t).isValid

(* An element of batch c that cannot be minted on storage st *)
BadElement(st, c, i) ==
    \/ c.students[i] = ZERO
    \/ c.ipfsHashes[i] = ""
    \/ c.ipfsHashes[i] \in st.usedHashes
    \/ \E j \in 1..(i - 1) : c.ipfsHashes[j] = c.ipfsHashes[i]

(* C4: a batch mint is all-or-nothing.  A batch that fails leaves the      *)
(* whole storage (ledger, counter, indexes, log) as it found it, and a     *)
(* batch with an element that has a zero owner, an empty hash, a used hash *)
(* or a hash repeated from an earlier element fails.                       *)
C4_BatchAllOrNothing ==
    IsBatch =>
        /\ ~last.ok => Storage = pre
        /\ (BatchSizesOk(lc) /\ \E i \in 1..Len(lc.students) : BadElement(pre, lc, i))
              => ~last.ok
        /\ last.ok => Cardinality(Issued(log)) - Cardinality(Issued(pre.log))
                         >= Len(lc.students)

(* C4 witness: a batch failed at its second element after a first element *)
(* that could be minted                                                   *)
C4_Witness ==
    /\ IsBatch /\ ~last.ok /\ BatchSizesOk(lc) /\ Len(lc.students) = 2
    /\ ByMinter /\ ~pre.paused
    /\ ~BadElement(pre, lc, 1) /\ BadElement(pre, lc, 2)
    /\ Storage = pre

EqualLengths(c) ==
    /\ Len(c.courseNames) = Len(c.students)
    /\ Len(c.grades) = Len(c.students)
    /\ Len(c.ipfsHashes) = Len(c.students)

(* C5 as stated: a batch mint of n elements, by a MINTER on an unpaused    *)
(* registry, fails with BatchLimit when n = 0 or n > 50, and for           *)
(* 1 <= n <= 50 the size check does not reject it.                         *)
C5_BatchLimit ==
    (IsBatch /\ ByMinter /\ ~pre.paused /\ EqualLengths(lc)) =>
        IF Len(lc.students) = 0 \/ Len(lc.students) > MAX_BATCH_SIZE
        THEN ~last.ok /\ last.err = "BatchLimit"
        ELSE last.err # "BatchLimit"

(* C6, as amended: a batch mint, by a MINTER on an unpaused registry,      *)
(* whose four sequences are not all of one length mints nothing; it fails  *)
(* with LengthMismatch when there are at most 50 students and with         *)
(* BatchLimit when there are more, the size check being made first.        *)
C6_LengthMismatch ==
    (IsBatch /\ ByMinter /\ ~pre.paused /\ ~EqualLengths(lc)) =>
        /\ ~last.ok
        /\ Storage = pre
        /\ last.err = IF Len(lc.students) <= MAX_BATCH_SIZE
                      THEN "LengthMismatch" ELSE "BatchLimit"

(* C6 witness: fifty students and sequences of other lengths *)
C6_Witness ==
    /\ IsBatch /\ ByMinter /\ ~pre.paused /\ ~EqualLengths(lc)
    /\ Len(lc.students) = MAX_BATCH_SIZE
    /\ last.err = "LengthMismatch"

(* C6 as stated: LengthMismatch for every combination of lengths in which *)
(* the four sequences are not all of one length                           *)
C6_AlwaysLengthMismatch ==
    (IsBatch /\ ByMinter /\ ~pre.paused /\ ~EqualLengths(lc)) =>
        ~last.ok /\ last.err = "LengthMismatch" /\ Storage = pre

Semesters(l) == {i \in DOMAIN l : l[i].ev = "SemesterCertDetails"}

(* The identifiers (serialNo, memoNo) of the semester certificates minted *)
(* according to log l                                                     *)
IdsIssued(l) == UNION {{l[i].s1, l[i].s2} : i \in Semesters(l)}

(* C7 as stated: semester identifiers are consumed at most once.  A        *)
(* mintSemesterCertificate by a MINTER on an unpaused registry whose       *)
(* serialNo or memoNo was given to an earlier successful one fails with    *)
(* AlreadyExists whatever the owner and the hash; a failed one consumes    *)
(* neither identifier and a successful one both; no identifier leaves the  *)
(* set; no two semester certificates share an identifier.                  *)
C7_SemesterIdsOnce ==
    /\ (lc.op = "mintSemesterCertificate" /\ ByMinter /\ ~pre.paused) =>
          /\ {lc.serialNo, lc.memoNo} \cap IdsIssued(pre.log) # {}
                => ~last.ok /\ last.err = "AlreadyExists"
          /\ ~last.ok => usedUniqueIdentifiers = pre.usedIds
          /\ last.ok => {lc.serialNo, lc.memoNo} \subseteq usedUniqueIdentifiers
    /\ pre.usedIds \subseteq usedUniqueIdentifiers
    /\ \A i, j \in Semesters(log) :
          i # j => {log[i].s1, log[i].s2} \cap {log[j].s1, log[j].s2} = {}

(* The tokens minted by the call at hand *)
NewTokens == (1..tokenIdCounter) \ (1..pre.counter)

(* C8: only a MINTER mints.  Each of the five mint operations called by an *)
(* account without MINTER fails with the authorization error and changes   *)
(* nothing, and the issuer recorded for a token held MINTER when the token *)
(* was minted.                                                             *)
C8_OnlyMinterMints ==
    IsMint =>
        /\ ~ByMinter =>
              /\ ~last.ok
              /\ last.err = "AccessControlUnauthorizedAccount"
              /\ Storage = pre
        /\ \A t \in NewTokens : certConfigs[t].issuer \in pre.roles[MINTER_ROLE]
        /\ \A t \in 1..pre.counter : certConfigs[t].issuer = pre.configs[t].issuer

(* C8 witness: an account whose MINTER role was revoked is refused *)
C8_Witness ==
    /\ IsMint /\ ~ByMinter /\ ~last.ok
    /\ \E t \in 1..pre.counter : pre.configs[t].issuer = lc.sender

ByAdmin == lc.sender \in pre.roles[ADMIN_ROLE]

(* C9 as stated: revokeCertificate(t) by an ADMIN fails with NotFound if t *)
(* was never minted and with Revoked if t is revoked; otherwise it sets    *)
(* isRevoked and appends exactly one CertRevoked(t, caller); without ADMIN *)
(* it is rejected and changes nothing; for each token there is at most one *)
(* CertRevoked log.                                                        *)
C9_Revoke ==
    /\ lc.op = "revokeCertificate" =>
          IF ~ByAdmin THEN ~last.ok /\ Storage = pre
          ELSE IF lc.tokenId \notin DOMAIN pre.owners
               THEN ~last.ok /\ last.err = "NotFound"
          ELSE IF pre.configs[lc.tokenId].isRevoked
               THEN ~last.ok /\ last.err = "Revoked"
          ELSE /\ last.ok
               /\ certConfigs[lc.tokenId].isRevoked
               /\ log = Append(pre.log, CertRevoked(lc.tokenId, lc.sender))
    /\ \A t \in 1..tokenIdCounter : Cardinality(Revocations(log, t)) <= 1

(* The caller holds the role the operation asks for *)
Authorized ==
    \/ IsMint /\ ByMinter
    \/ lc.op = "revokeCertificate" /\ ByAdmin

(* C10 as stated: while the registry is paused the five mint operations    *)
(* and revokeCertificate, called with the role they ask for, are rejected  *)
(* with the paused-state error and change nothing.                         *)
C10_PausedRejects ==
    (pre.paused /\ Authorized) =>
        ~last.ok /\ last.err = "EnforcedPause" /\ Storage = pre

(* The CertificateIssued logs of token t in log l *)
IssuedFor(l, t) == {i \in Issued(l) : l[i].tokenId = t}

(* What the log of the mint of t says of t: its hash and its type *)
IssuedHash(l, t) == l[CHOOSE i \in IssuedFor(l, t) : TRUE].s1
IssuedType(l, t) == l[CHOOSE i \in IssuedFor(l, t) : TRUE].s2

HasNoRole(st, a) == \A r \in Roles : a \notin st.roles[r]

(* C11: verifyCertificate(t) succeeds for any caller, paused or not,       *)
(* changes no state and writes no log; it returns (false, "", REGULAR) for *)
(* a token never minted, (false, "", type) for a revoked token and         *)
(* (true, the hash given at mint, type) otherwise.                         *)
C11_VerifyIsPureRead ==
    lc.op = "verifyCertificate" =>
        /\ last.ok
        /\ Storage = pre
        /\ last.ret =
             IF lc.tokenId \notin 1..pre.counter
             THEN [isValid |-> FALSE, ipfsUri |-> "", cType |-> "REGULAR"]
             ELSE IF pre.configs[lc.tokenId].isRevoked
             THEN [isValid |-> FALSE, ipfsUri |-> "",
                   cType |-> IssuedType(pre.log, lc.tokenId)]
             ELSE [isValid |-> TRUE, ipfsUri |-> IssuedHash(pre.log, lc.tokenId),
                   cType |-> IssuedType(pre.log, lc.tokenId)]

(* C11 witness: on a paused registry an account without any role verifies *)
(* a revoked token                                                         *)
C11_Witness ==
    /\ lc.op = "verifyCertificate" /\ pre.paused /\ HasNoRole(pre, lc.sender)
    /\ lc.tokenId \in 1..pre.counter /\ pre.configs[lc.tokenId].isRevoked
    /\ ~last.ret.isValid /\ last.ret.ipfsUri = ""

ByVerifier == lc.sender \in pre.roles[VERIFIER_ROLE]

(* C12: verifyCertificateByVerifier(t) is rejected without a state change  *)
(* or a log for a caller without VERIFIER; for a VERIFIER it returns the   *)
(* isValid and the type verifyCertificate(t) gives in that state, appends  *)
(* exactly one CertVerified(t, caller, isValid) and changes nothing else.  *)
C12_VerifierLogs ==
    lc.op = "verifyCertificateByVerifier" =>
        IF ~ByVerifier THEN ~last.ok /\ Storage = pre
        ELSE /\ last.ok
             /\ last.ret.isValid = verifyCertificate(pre, lc.tokenId).isValid
             /\ last.ret.cType = verifyCertificate(pre, lc.tokenId).cType
             /\ Storage = [pre EXCEPT !.log =
                              Append(@, CertVerified(lc.tokenId, lc.sender,
                                                     last.ret.isValid))]

(* C12 witness: a VERIFIER verifies a revoked token and the log says so *)
C12_Witness ==
    /\ lc.op = "verifyCertificateByVerifier" /\ ByVerifier /\ last.ok
    /\ lc.tokenId \in 1..pre.counter /\ pre.configs[lc.tokenId].isRevoked
    /\ log[Len(log)] = CertVerified(lc.tokenId, lc.sender, FALSE)

(* The tokens minted to owner u according to log l *)
MintedTo(l, u) == {l[i].tokenId : i \in {j \in Issued(l) : l[j].addr = u}}

Elements(q) == {q[i] : i \in DOMAIN q}

IsPrefix(a, b) == Len(a) <= Len(b) /\ SubSeq(b, 1, Len(a)) = a

(* C13 as stated: getStudentCertificates(u) is the sequence of the token   *)
(* ids minted to u, oldest first (ids are allocated in mint order, so in   *)
(* ascending order, each once), empty if there are none; a call leaves     *)
(* every owner's list a prefix of what it becomes, and only a mint call    *)
(* lengthens a list.                                                       *)
C13_OwnerIndex ==
    /\ \A u \in Users :
          /\ Elements(getStudentCertificates(Storage, u)) = MintedTo(log, u)
          /\ \A i, j \in DOMAIN studentCertificates[u] :
                i < j => studentCertificates[u][i] < studentCertificates[u][j]
          /\ ~Idle => IsPrefix(pre.certsOf[u], studentCertificates[u])
          /\ (~Idle /\ ~IsMint) => studentCertificates[u] = pre.certsOf[u]
    /\ lc.op = "getStudentCertificates" =>
          /\ last.ok /\ Storage = pre
          /\ last.ret = pre.certsOf[lc.student]

(* The certificate type a mint function gives *)
TypeOf(op) ==
    CASE op = "mintSemesterCertificate" -> "SEMESTER"
      [] op = "mintAchievementCertificate" -> "ACHIEVEMENT"
      [] op = "mintCustomCertificate" -> "CUSTOM"
      [] OTHER -> "REGULAR"

(* The recipient's hook of the single mint at hand hands the token on *)
HookTransfers == hookAt(lc, 1).kind = "call" /\ hookAt(lc, 1).call.op = "transferFrom"

DetailNames == {"RegularCertDetails", "SemesterCertDetails",
                "AchievementCertDetails", "CustomCertDetails"}

(* The type-specific detail logs of token t in log l *)
DetailsFor(l, t) == {i \in DOMAIN l : l[i].ev \in DetailNames /\ l[i].tokenId = t}

(* The detail log a single mint c of token t is to write *)
DetailOf(c, t) ==
    CASE c.op = "mintSemesterCertificate" ->
            SemesterCertDetails(t, c.serialNo, c.memoNo, c.sgpa)
      [] c.op = "mintAchievementCertificate" ->
            AchievementCertDetails(t, c.title, c.category)
      [] c.op = "mintCustomCertificate" -> CustomCertDetails(t, c.templateId)
      [] OTHER -> RegularCertDetails(t, c.courseName, c.grade)

(* The strings log e carries *)
Carried(e) == {e.s1, e.s2}

(* Every token has one CertificateIssued log and one detail log, of its type *)
OneDetailEach ==
    \A t \in 1..tokenIdCounter :
        /\ Cardinality(IssuedFor(log, t)) = 1
        /\ Cardinality(DetailsFor(log, t)) = 1
        /\ \A i \in DetailsFor(log, t) :
              log[i].ev = CASE IssuedType(log, t) = "SEMESTER" -> "SemesterCertDetails"
                            [] IssuedType(log, t) = "ACHIEVEMENT" -> "AchievementCertDetails"
                            [] IssuedType(log, t) = "CUSTOM" -> "CustomCertDetails"
                            [] OTHER -> "RegularCertDetails"

(* The last thing a successful mint writes is the detail log of its token *)
DetailLogged ==
    /\ (IsSingleMint /\ last.ok) => log[Len(log)] = DetailOf(lc, last.ret)
    /\ (IsBatch /\ last.ok /\ NoHooks(lc)) =>
          \A k \in 1..Len(lc.students) :
             \A i \in DetailsFor(log, pre.counter + k) :
                log[i] = RegularCertDetails(pre.counter + k, lc.courseNames[k],
                                            lc.grades[k])

HookRevokes(t) ==
    \E i \in DOMAIN lc.hooks :
        /\ lc.hooks[i].kind = "call"
        /\ lc.hooks[i].call.op = "revokeCertificate"
        /\ lc.hooks[i].call.tokenId = t

(* C16: a call leaves every token that existed before it in the ledger,    *)
(* with its type, its issuer, its issue date and its content reference;    *)
(* it changes the isRevoked of such a token only by revokeCertificate of   *)
(* that token.  A successful revokeCertificate(t) sets isRevoked of t and  *)
(* appends its log, and changes nothing else.                              *)
C16_LifecycleFrame ==
    ~Idle =>
        /\ \A t \in 1..pre.counter :
              /\ t \in DOMAIN owners
              /\ certConfigs[t].certType = pre.configs[t].certType
              /\ certConfigs[t].issuer = pre.configs[t].issuer
              /\ certConfigs[t].issueDate = pre.configs[t].issueDate
              /\ tokenURIs[t] = pre.uris[t]
              /\ certConfigs[t].isRevoked # pre.configs[t].isRevoked =>
                    \/ lc.op = "revokeCertificate" /\ lc.tokenId = t
                    \/ IsMint /\ HookRevokes(t)
        /\ (lc.op = "revokeCertificate" /\ last.ok) =>
              Storage = [pre EXCEPT
                           !.configs[lc.tokenId].isRevoked = TRUE,
                           !.log = Append(@, CertRevoked(lc.tokenId, lc.sender))]

(* C16 witness: one of two tokens is revoked and the other is not *)
C16_Witness ==
    /\ lc.op = "revokeCertificate" /\ last.ok /\ pre.counter = 2
    /\ certConfigs[lc.tokenId].isRevoked
    /\ \E t \in 1..2 : t # lc.tokenId /\ ~certConfigs[t].isRevoked

(* The semester mint at hand would have passed but for its owner or hash *)
SemesterFailsInMintBase ==
    /\ lc.op = "mintSemesterCertificate" /\ ~last.ok
    /\ ByMinter /\ ~pre.paused
    /\ {lc.serialNo, lc.memoNo} \cap pre.usedIds = {}
    /\ lc.student = ZERO \/ lc.ipfsHash = "" \/ lc.ipfsHash \in pre.usedHashes

(* The call at hand made again for owner A2 with content hash h *)
Retry(h) == [lc EXCEPT !.student = "A2", !.ipfsHash = h, !.hooks = <<>>]

(* C17: a rejected call leaves the whole storage as it found it; a         *)
(* mintSemesterCertificate rejected for a used hash, an empty hash or a    *)
(* zero owner consumes neither identifier, and the same call with a valid  *)
(* owner and an unused hash then succeeds.                                 *)
C17_RejectedIsNoop ==
    /\ (~Idle /\ ~last.ok) => Storage = pre
    /\ SemesterFailsInMintBase =>
          /\ {lc.serialNo, lc.memoNo} \cap usedUniqueIdentifiers = {}
          /\ \A h \in Hashes \ ({""} \cup usedHashes) : exec(Storage, Retry(h), now).ok

(* C17 witness: a semester mint fails on a used hash while another hash is *)
(* still unused                                                            *)
C17_Witness ==
    /\ SemesterFailsInMintBase /\ last.err = "AlreadyExists"
    /\ lc.student # ZERO
    /\ Hashes \ ({""} \cup usedHashes) # {}

InvalidElement(c, i) == c.students[i] = ZERO \/ c.ipfsHashes[i] = ""

(* The call at hand has a zero owner or an empty hash *)
HasInvalidInput ==
    \/ IsSingleMint /\ (lc.student = ZERO \/ lc.ipfsHash = "")
    \/ IsBatch /\ \E i \in DOMAIN lc.students : lc.students[i] = ZERO
    \/ IsBatch /\ \E i \in DOMAIN lc.ipfsHashes : lc.ipfsHashes[i] = ""

(* The first element of batch c that cannot be minted on storage st *)
FirstBad(st, c) ==
    CHOOSE i \in 1..Len(c.students) :
        /\ BadElement(st, c, i)
        /\ \A j \in 1..(i - 1) : ~BadElement(st, c, j)

NeverZeroNeverEmpty ==
    /\ \A t \in DOMAIN certConfigs : \A i \in IssuedFor(log, t) : log[i].addr # ZERO
    /\ "" \notin usedHashes

(* C18, as amended: a mint call by a MINTER on an unpaused registry with a *)
(* zero owner or an empty hash fails and mints nothing.  A single mint     *)
(* fails with InvalidInput, also when its hash is used, except a semester  *)
(* mint with a used serialNo or memoNo, which fails with AlreadyExists; a  *)
(* batch fails with BatchLimit or LengthMismatch if its size or lengths    *)
(* are wrong and otherwise with the error of its first element that cannot *)
(* be minted, InvalidInput if that one has a zero owner or an empty hash.  *)
(* No token is minted to the zero address and the empty string is never a  *)
(* used hash.                                                              *)
C18_InvalidInput ==
    /\ NeverZeroNeverEmpty
    /\ (IsMint /\ ByMinter /\ ~pre.paused /\ HasInvalidInput) =>
          /\ ~last.ok
          /\ Storage = pre
          /\ last.err =
               IF IsBatch
               THEN IF Len(lc.students) > MAX_BATCH_SIZE THEN "BatchLimit"
                    ELSE IF ~EqualLengths(lc) THEN "LengthMismatch"
                    ELSE IF InvalidElement(lc, FirstBad(pre, lc)) THEN "InvalidInput"
                    ELSE "AlreadyExists"
               ELSE IF lc.op = "mintSemesterCertificate"
                       /\ {lc.serialNo, lc.memoNo} \cap pre.usedIds # {}
                    THEN "AlreadyExists"
                    ELSE "InvalidInput"

(* C18 witness: a zero owner together with a used hash gives InvalidInput *)
C18_Witness ==
    /\ IsSingleMint /\ ByMinter /\ ~pre.paused
    /\ lc.student = ZERO /\ lc.ipfsHash \in pre.usedHashes
    /\ last.err = "InvalidInput"

(* C18 as stated: every mint call by a MINTER on an unpaused registry with *)
(* a zero owner or an empty hash fails with InvalidInput                   *)
C18_AlwaysInvalidInput ==
    /\ NeverZeroNeverEmpty
    /\ (IsMint /\ ByMinter /\ ~pre.paused /\ HasInvalidInput) =>
          ~last.ok /\ last.err = "InvalidInput" /\ Storage = pre

(* C19 as stated: no two tokens carry the same content hash, the used-hash *)
(* set is exactly the set of the hashes of the tokens minted, and no call  *)
(* removes a hash from it.                                                 *)
C19_HashesUnique ==
    /\ \A t, u \in 1..tokenIdCounter : t # u => tokenURIs[t] # tokenURIs[u]
    /\ usedHashes = {tokenURIs[t] : t \in 1..tokenIdCounter}
    /\ usedHashes = HashesIssued(log)
    /\ ~Idle => pre.usedHashes \subseteq usedHashes

(* The single mint at hand runs code of its recipient *)
HookRuns ==
    /\ IsSingleMint /\ last.ok
    /\ lc.student \in Contracts
    /\ hookAt(lc, 1).kind = "call"

(* The storage the recipient's hook of the single mint at hand runs on *)
HookStorage == minted(allocate(pre), lc.student, allocate(pre).counter)

(* Token t is fully recorded in storage st for the call c that mints it *)
Recorded(st, t, c) ==
    /\ t \in DOMAIN st.configs
    /\ c.ipfsHash \in st.usedHashes
    /\ \E i \in DOMAIN st.certsOf[c.student] : st.certsOf[c.student][i] = t
    /\ c.op = "mintSemesterCertificate" => {c.serialNo, c.memoNo} \subseteq st.usedIds
    /\ verifyCertificate(st, t) = [isValid |-> TRUE, ipfsUri |-> c.ipfsHash,
                                   cType |-> TypeOf(c.op)]

(* C20 as stated: when the recipient's hook runs during a mint, the token  *)
(* that is in the ledger has its config, its used hash, its owner-index    *)
(* entry and, for a semester mint, its used identifiers recorded, and      *)
(* verifyCertificate reports it with its type and reference.               *)
C20_NoIntermediateState ==
    HookRuns =>
        /\ HookStorage.counter \in DOMAIN HookStorage.owners
        /\ Recorded(HookStorage, HookStorage.counter, lc)

(* The places of token t in the owner index lists *)
Places(t) ==
    {<<u, i>> \in Users \X (1..tokenIdCounter) :
        i \in DOMAIN studentCertificates[u] /\ studentCertificates[u][i] = t}

RECURSIVE SumLen(_)
SumLen(S) ==
    IF S = {} THEN 0
    ELSE LET u == CHOOSE x \in S : TRUE
         IN Len(studentCertificates[u]) + SumLen(S \ {u})

(* Token t is listed once, under owner o *)
ListedOnceUnder(t, o) == \E i \in 1..tokenIdCounter : Places(t) = {<<o, i>>}

ElementCall(c, k) ==
    [Call("mintCertificate", c.sender) EXCEPT
        !.student = c.students[k], !.ipfsHash = c.ipfsHashes[k],
        !.courseName = c.courseNames[k], !.grade = c.grades[k],
        !.hooks = <<hookAt(c, k)>>]

(* The storage after mintCertificate calls for the first k elements of c *)
RECURSIVE Successive(_, _, _, _)
Successive(st, c, k, ts) ==
    IF k = 0 THEN st
    ELSE exec(Successive(st, c, k - 1, ts), ElementCall(c, k), ts).st

(* The logs of the first k elements of batch c minted from counter base *)
RECURSIVE BatchLog(_, _, _, _)
BatchLog(c, base, k, ts) ==
    IF k = 0 THEN <<>>
    ELSE BatchLog(c, base, k - 1, ts)
           \o <<CertificateIssued(base + k, c.students[k], c.ipfsHashes[k], "REGULAR", ts),
                RegularCertDetails(base + k, c.courseNames[k], c.grades[k])>>

AdminOps == {"revokeCertificate", "pause", "unpause", "setBaseURI"}

Unauthorized == ~last.ok /\ last.err = "AccessControlUnauthorizedAccount" /\ Storage = pre

(* Each operation asks for its own role, whatever other roles the caller has *)
RolesCheckedApart ==
    /\ (IsMint /\ lc.sender \notin pre.roles[MINTER_ROLE]) => Unauthorized
    /\ (lc.op \in AdminOps /\ lc.sender \notin pre.roles[ADMIN_ROLE]) => Unauthorized
    /\ (lc.op = "verifyCertificateByVerifier" /\ lc.sender \notin pre.roles[VERIFIER_ROLE])
          => Unauthorized

(* The roles at deployment *)
DeployerRoles ==
    /\ roles[DEFAULT_ADMIN_ROLE] = {Deployer}
    /\ roles[ADMIN_ROLE] = {Deployer}
    /\ roles[MINTER_ROLE] = {Deployer}
    /\ roles[VERIFIER_ROLE] = {}

(* C23: at deployment the deployer holds the super-admin, ADMIN and MINTER *)
(* roles and not VERIFIER; ever after, a caller without MINTER cannot      *)
(* mint, a caller without ADMIN cannot revoke, pause, unpause or set the   *)
(* base URI, a caller without VERIFIER cannot call                         *)
(* verifyCertificateByVerifier, whatever other roles the caller holds.     *)
C23_RolesIndependent == DeployerRoles /\ [](RolesCheckedApart)

(* C23 witness: the super-admin, having lost MINTER, is refused a mint *)
C23_Witness ==
    /\ IsMint /\ ~last.ok
    /\ lc.sender \in pre.roles[DEFAULT_ADMIN_ROLE] \cap pre.roles[ADMIN_ROLE]
    /\ lc.sender \notin pre.roles[MINTER_ROLE]
    /\ last.err = "AccessControlUnauthorizedAccount"

(* The tokens the owner index lists under a *)
Listed(a) == {studentCertificates[a][i] : i \in DOMAIN studentCertificates[a]}

(* The tokens the ownership ledger gives to a *)
Held(a) == {t \in 1..tokenIdCounter : owners[t] = a}

(* C24: in every state, transfers included, getStudentCertificates(a)      *)
(* lists exactly the tokens whose ledger owner is a.                       *)
C24_IndexMatchesLedger == \A a \in Users : Listed(a) = Held(a)

(* The serial numbers, and the memo numbers, of the semester certificates  *)
(* minted according to log l                                               *)
SerialsIssued(l) == {l[i].s1 : i \in Semesters(l)}

MemosIssued(l) == {l[i].s2 : i \in Semesters(l)}

(* The call at hand is a semester mint by a MINTER on an unpaused registry *)
SemesterByMinter == lc.op = "mintSemesterCertificate" /\ ByMinter /\ ~pre.paused

(* The call at hand passes every check of _mintBase *)
MintBasePasses ==
    lc.student # ZERO /\ lc.ipfsHash # "" /\ lc.ipfsHash \notin pre.usedHashes

(* C25: serial and memo numbers share one namespace.  A semester mint      *)
(* whose serialNo was the memoNo of an earlier semester certificate, or    *)
(* whose memoNo was an earlier serialNo, fails with AlreadyExists; one     *)
(* whose serialNo equals its memoNo succeeds when that string is unused    *)
(* and consumes it once; the empty string is an identifier like any other: *)
(* once consumed, a semester mint with an empty serialNo or memoNo fails   *)
(* with AlreadyExists; no string is the serialNo of one semester           *)
(* certificate and the memoNo of another.                                  *)
C25_SharedNamespace ==
    /\ SemesterByMinter =>
          /\ (lc.serialNo \in MemosIssued(pre.log) \/ lc.memoNo \in SerialsIssued(pre.log))
                => ~last.ok /\ last.err = "AlreadyExists" /\ Storage = pre
          /\ (lc.serialNo = lc.memoNo /\ lc.serialNo \notin IdsIssued(pre.log)
                 /\ MintBasePasses /\ NoHooks(lc))
                => /\ last.ok
                   /\ usedUniqueIdentifiers = pre.usedIds \cup {lc.serialNo}
                   /\ Cardinality(Semesters(log)) = Cardinality(Semesters(pre.log)) + 1
          /\ ("" \in IdsIssued(pre.log) /\ "" \in {lc.serialNo, lc.memoNo})
                => ~last.ok /\ last.err = "AlreadyExists" /\ Storage = pre
    /\ \A i, j \in Semesters(log) : i # j => log[i].s1 # log[j].s2

----------------------------------------------------------------------------
(* The escrow's claims.  ec is the escrow call of the receipt at hand,     *)
(* epre the escrow storage it ran on, escrow the storage it left.          *)

ec == elast.call
epre == elast.pre

IsClaim == ec.op = "claimScholarship"

(* The students whose claim of scholarship id succeeded, by the flags *)
Claimers(es, id) == {a \in Users : <<id, a>> \in es.claims}

(* C26: the escrow's accounts.  For every scholarship claimedAmount +      *)
(* remainingAmount = totalAmount, amountPerRecipient = totalAmount div     *)
(* maxRecipients and claimedAmount = amountPerRecipient times the number   *)
(* of successful claims; a successful claim sets one new flag and no other *)
(* call sets or clears one; a failed claimScholarship leaves the whole     *)
(* storage, the balance included, as it was.                               *)
C26_Accounting ==
    /\ \A id \in 1..escrow.counter :
          LET s == escrow.scholarships[id]
          IN /\ s.claimedAmount + s.remainingAmount = s.totalAmount
             /\ s.amountPerRecipient = s.totalAmount \div s.maxRecipients
             /\ s.claimedAmount = s.amountPerRecipient * Cardinality(Claimers(escrow, id))
    /\ (IsClaim /\ elast.ok) =>
          /\ <<ec.scholarshipId, ec.sender>> \notin epre.claims
          /\ escrow.claims = epre.claims \cup {<<ec.scholarshipId, ec.sender>>}
    /\ (~EscrowIdle /\ ~(IsClaim /\ elast.ok)) => escrow.claims = epre.claims
    /\ (IsClaim /\ ~elast.ok) => escrow = epre

(* C26 witness: after a first student was paid, a contract's claim fails   *)
(* because it rejects the payment                                          *)
C26_Witness ==
    /\ IsClaim /\ ~elast.ok /\ elast.err = "ETH transfer failed"
    /\ scholarshipAt(epre, ec.scholarshipId).claimedAmount > 0
    /\ scholarshipAt(escrow, ec.scholarshipId).remainingAmount > 0

(* C27: a student succeeds in claiming a scholarship at most once, and a   *)
(* scholarship has at most maxRecipients successful claims.                *)
C27_AtMostMaxRecipients ==
    /\ (IsClaim /\ elast.ok) => <<ec.scholarshipId, ec.sender>> \notin epre.claims
    /\ \A id \in 1..escrow.counter :
          Cardinality(Claimers(escrow, id)) <= escrow.scholarships[id].maxRecipients

RECURSIVE SumOver(_, _)
(* The sum of f over the set S *)
SumOver(f, S) ==
    IF S = {} THEN 0
    ELSE LET x == CHOOSE y \in S : TRUE IN f[x] + SumOver(f, S \ {x})

(* What the active ETH scholarships of es still owe *)
Owed(es) ==
    SumOver([id \in 1..es.counter |-> es.scholarships[id].remainingAmount],
            {id \in 1..es.counter : /\ es.scholarships[id].isActive
                                     /\ es.scholarships[id].tokenAddress = ETH})

(* C28: the escrow is solvent.  Its balance is at least the sum of the     *)
(* remaining amounts of the active ETH scholarships, and no claim fails    *)
(* for lack of contract balance.                                           *)
C28_Solvent ==
    /\ escrow.balance >= Owed(escrow)
    /\ IsClaim => elast.err # "Insufficient contract balance"

Created(es) == 1..es.counter

(* C29: isActive is one-way.  A scholarship is active when created; it     *)
(* becomes inactive only by a successful revokeScholarship, which only an  *)
(* ADMIN can make and only on an active scholarship, or by the successful  *)
(* claim that brings its remainingAmount to 0; an inactive scholarship     *)
(* never changes again, and every claimScholarship on it fails.            *)
C29_ActiveOneWay ==
    ~EscrowIdle =>
        /\ \A id \in Created(escrow) \ Created(epre) : escrow.scholarships[id].isActive
        /\ \A id \in Created(epre) :
              /\ ~epre.scholarships[id].isActive
                    => escrow.scholarships[id] = epre.scholarships[id]
              /\ (epre.scholarships[id].isActive /\ ~escrow.scholarships[id].isActive)
                    => /\ elast.ok /\ ec.scholarshipId = id
                       /\ \/ /\ ec.op = "revokeScholarship"
                             /\ ec.sender \in epre.roles[ADMIN_ROLE]
                          \/ /\ IsClaim
                             /\ escrow.scholarships[id].remainingAmount = 0
        /\ (IsClaim /\ ~scholarshipAt(epre, ec.scholarshipId).isActive)
              => ~elast.ok /\ escrow = epre
        /\ (ec.op = "revokeScholarship" /\ elast.ok)
              => ~escrow.scholarships[ec.scholarshipId].isActive
        /\ (ec.op = "revokeScholarship"
               /\ (~scholarshipAt(epre, ec.scholarshipId).isActive
                     \/ ec.sender \notin epre.roles[ADMIN_ROLE]))
              => ~elast.ok /\ escrow = epre
        /\ (IsClaim /\ elast.ok
               /\ escrow.scholarships[ec.scholarshipId].remainingAmount = 0)
              => ~escrow.scholarships[ec.scholarshipId].isActive

(* C29 witness: a claim on a revoked scholarship that still holds funds    *)
(* is refused                                                              *)
C29_Witness ==
    /\ IsClaim /\ ~elast.ok /\ elast.err = "Scholarship is not active"
    /\ ec.scholarshipId \in Created(epre)
    /\ epre.scholarships[ec.scholarshipId].remainingAmount > 0
    /\ ~epre.paused

----------------------------------------------------------------------------
(* The uploader's claim *)

(* What the preview shows for file f once f is accepted *)
Shown(f) ==
    IF parseCSV(f).ok /\ Len(parseCSV(f).rows) <= UPLOAD_MAX_ROWS
    THEN validateData(parseCSV(f).rows) ELSE <<>>

(* C30: the uploader's state is consistent.  Once every upload is settled  *)
(* the rows of the preview, which handleMint submits, are the validated    *)
(* rows of the file shown as selected, or there are none; a batch handed   *)
(* to mintCertificatesBatch has from 1 to 50 rows.                         *)
C30_PreviewIsSelectedFile ==
    /\ ui.parsing = {} => (ui.data = <<>> \/ ui.data = Shown(ui.file))
    /\ ui.batch.sent => Len(ui.batch.rows) \in 1..UPLOAD_MAX_ROWS

====
